---------------------------- MODULE Spec2Model ----------------------------
(***************************************************************************)
(* Pick-a-Zoo: the configuration store (core/feed_manager.py), the Feed    *)
(* model (core/models.py), feed discovery (core/feed_discovery.py) and the *)
(* flows that use them (tui/screens/add_feed.py,                           *)
(* update_feed_window_size).                                               *)
(*                                                                         *)
(* Strings that the code inspects character by character (feed names) are  *)
(* sequences of one-character strings.  The config file is modelled by     *)
(* what yaml.safe_load makes of its bytes.                                 *)
(***************************************************************************)
EXTENDS Integers, Sequences, FiniteSets, TLC

(***************************************************************************)
(* Characters and text helpers                                             *)
(***************************************************************************)

\* str.isdigit / regex \d over the model's alphabet
DigitChars == <<"0", "1", "2", "3", "4", "5", "6", "7", "8", "9">>

IsDigit(c) == \E i \in 1..10 : DigitChars[i] = c

\* regex \s and str.strip() whitespace over the model's alphabet
IsSpace(c) == c = " "

DigitVal(c) == (CHOOSE i \in 1..10 : DigitChars[i] = c) - 1

\* int("12") of a non-empty digit string
RECURSIVE IntOf(_)
IntOf(ds) ==
    IF Len(ds) = 0 THEN 0
    ELSE 10 * IntOf(SubSeq(ds, 1, Len(ds) - 1)) + DigitVal(ds[Len(ds)])

\* str(n) of a natural number, as in the f-string f"{base_name} ({new_suffix})"
RECURSIVE Dec(_)
Dec(n) ==
    IF n < 10 THEN <<DigitChars[n + 1]>>
    ELSE Dec(n \div 10) \o <<DigitChars[(n % 10) + 1]>>

StartsWith(s, pre) ==
    /\ Len(s) >= Len(pre)
    /\ SubSeq(s, 1, Len(pre)) = pre

Max(a, b) == IF a >= b THEN a ELSE b

\* str.strip(): drop leading and trailing whitespace
RECURSIVE Strip(_)
Strip(s) ==
    IF Len(s) = 0 THEN s
    ELSE IF IsSpace(s[1]) THEN Strip(SubSeq(s, 2, Len(s)))
    ELSE IF IsSpace(s[Len(s)]) THEN Strip(SubSeq(s, 1, Len(s) - 1))
    ELSE s

(***************************************************************************)
(* resolve_duplicate_name (feed_manager.py 173-226)                        *)
(***************************************************************************)

NoMatch == [matched |-> FALSE, base |-> <<>>, num |-> 0]

\* re.match(r"^(.+?)\s+\((\d+)\)$", name): name = base, whitespace run, "(",
\* digits, ")".  "(.+?)" is lazy: the shortest base that lets the rest match.
SuffixMatch(name) ==
    LET n == Len(name)
        cands == { c \in (1..n) \X (1..n) :
                     /\ c[1] + 2 <= c[2]
                     /\ c[2] + 2 <= n
                     /\ name[n] = ")"
                     /\ name[c[2]] = "("
                     /\ \A k \in (c[1] + 1)..(c[2] - 1) : IsSpace(name[k])
                     /\ \A k \in (c[2] + 1)..(n - 1) : IsDigit(name[k]) }
    IN  IF cands = {} THEN NoMatch
        ELSE LET c == CHOOSE x \in cands : \A y \in cands : x[1] <= y[1]
             IN  [matched |-> TRUE,
                  base    |-> SubSeq(name, 1, c[1]),
                  num     |-> IntOf(SubSeq(name, c[2] + 1, n - 1))]

\* re.match(rf"^{re.escape(base_name)}\s+\((\d+)\)$", existing_name)
NameMatch(base_name, existing_name) ==
    LET n  == Len(existing_name)
        b  == Len(base_name)
        qs == { q \in (b + 2)..n :
                  /\ q + 2 <= n
                  /\ existing_name[n] = ")"
                  /\ existing_name[q] = "("
                  /\ \A k \in (b + 1)..(q - 1) : IsSpace(existing_name[k])
                  /\ \A k \in (q + 1)..(n - 1) : IsDigit(existing_name[k]) }
    IN  IF StartsWith(existing_name, base_name) /\ qs # {}
        THEN LET q == CHOOSE x \in qs : TRUE
             IN  [matched |-> TRUE, base |-> base_name,
                  num |-> IntOf(SubSeq(existing_name, q + 1, n - 1))]
        ELSE NoMatch

\* The pass with "max_suffix = suffix_num" in place of max(...)
ScanStep_LastWins(base_name, max_suffix, existing_name) ==
    IF existing_name = base_name THEN Max(max_suffix, 1)
    ELSE IF StartsWith(existing_name, base_name \o <<" ", "(">>)
         THEN LET name_match == NameMatch(base_name, existing_name)
              IN  IF name_match.matched THEN name_match.num ELSE max_suffix
         ELSE max_suffix

\* One pass of "for existing_name in existing_names" (lines 212-220)
ScanStep(base_name, max_suffix, existing_name) ==
    IF existing_name = base_name THEN Max(max_suffix, 1)
    ELSE IF StartsWith(existing_name, base_name \o <<" ", "(">>)
         THEN LET name_match == NameMatch(base_name, existing_name)
              IN  IF name_match.matched THEN Max(max_suffix, name_match.num)
                  ELSE max_suffix
         ELSE max_suffix

\* The loop over the set existing_names; the result does not depend on the
\* iteration order, so the elements are taken in any order.
RECURSIVE ScanExisting(_, _, _)
ScanExisting(todo, base_name, max_suffix) ==
    IF todo = {} THEN max_suffix
    ELSE LET e == CHOOSE x \in todo : TRUE
         IN  ScanExisting(todo \ {e}, base_name, ScanStep(base_name, max_suffix, e))

\* f"{base_name} ({new_suffix})"
FormatName(base_name, new_suffix) ==
    base_name \o <<" ", "(">> \o Dec(new_suffix) \o <<")">>

\* resolve_duplicate_name without the loop over the existing names
resolve_duplicate_name_NoScan(name, existing_names) ==
    IF name \notin existing_names THEN name
    ELSE LET match == SuffixMatch(name)
         IN  IF match.matched THEN FormatName(match.base, match.num + 1)
             ELSE FormatName(name, 2)

\* resolve_duplicate_name returning the proposed name as it is
resolve_duplicate_name_Unresolved(name, existing_names) == name

\* resolve_duplicate_name(name, existing_feeds), existing_names being
\* {feed.name for feed in existing_feeds}
resolve_duplicate_name(name, existing_names) ==
    IF name \notin existing_names THEN name
    ELSE LET match      == SuffixMatch(name)
             base_name  == IF match.matched THEN match.base ELSE name
             max_suffix == IF match.matched THEN match.num ELSE 1
         IN  FormatName(base_name, ScanExisting(existing_names, base_name, max_suffix) + 1)


(***************************************************************************)
(* Feed and WindowSize (models.py)                                         *)
(***************************************************************************)

\* A URL text, by the components Pydantic's HttpUrl parses it into.
Url(scheme, host, path) == [scheme |-> scheme, host |-> host, path |-> path]

\* HttpUrl(v) accepts an absolute http(s) URL with a host (validate_url)
UrlOk(u) == u.scheme \in {"http", "https"} /\ u.host # ""

\* HttpUrl(v) normalises: a URL without a path gets the path "/"
HttpUrl(u) == [u EXCEPT !.path = IF u.path = "" THEN "/" ELSE u.path]

None == [set |-> FALSE, width |-> 0, height |-> 0]

WindowSize(width, height) == [set |-> TRUE, width |-> width, height |-> height]

\* Field(gt=0) on width and height
WindowSizeOk(ws) == ws.set => (ws.width > 0 /\ ws.height > 0)

\* DEFAULT_WINDOW_SIZE = WindowSize(width=1280, height=720)
DEFAULT_WINDOW_SIZE == WindowSize(1280, 720)

\* Field(min_length=1) and validate_name_stripped
NameOk(name) == Len(name) >= 1 /\ Len(Strip(name)) > 0

\* Whether Feed(**feed_data) validates
FeedOk(feed_data) ==
    /\ NameOk(feed_data.name)
    /\ UrlOk(feed_data.url)
    /\ WindowSizeOk(feed_data.window_size)

\* Feed without validate_name_stripped: the name is kept as given
Feed_Unstripped(name, url, window_size) ==
    [cls |-> "Feed", name |-> name, url |-> HttpUrl(url), window_size |-> window_size]

\* Feed(name=..., url=..., window_size=...): the validated object
Feed(name, url, window_size) ==
    [cls |-> "Feed", name |-> Strip(name), url |-> HttpUrl(url),
     window_size |-> window_size]

\* An object that is not a Feed (save_feeds' isinstance check rejects it)
NotAFeed == [cls |-> "str", name |-> <<>>, url |-> Url("", "", ""), window_size |-> None]

\* One mapping of the file's "feeds" sequence
Entry(name, url, window_size) == [name |-> name, url |-> url, window_size |-> window_size]

\* model_dump that leaves window_size out
model_dump_NoWindowSize(feed) == Entry(feed.name, feed.url, None)

\* feed.model_dump(mode="json") with feed_dict["url"] = str(feed_dict["url"])
model_dump(feed) == Entry(feed.name, feed.url, feed.window_size)

(***************************************************************************)
(* The config file, by what yaml.safe_load makes of its bytes              *)
(***************************************************************************)

\* kind: "missing"     no file at the path
\*       "empty"       zero bytes (safe_load gives None)
\*       "null"        a non-empty null document, e.g. only comments (None)
\*       "garbage"     malformed YAML (yaml.YAMLError)
\*       "badbytes"    bytes that are not UTF-8 (UnicodeDecodeError)
\*       "scalar"      the root is a scalar
\*       "nofeeds"     a mapping without the key "feeds" (data.get gives [])
\*       "list"        the root is a sequence
\*       "feedsscalar" a mapping whose "feeds" is not a sequence
\*       "feeds"       a mapping whose "feeds" is the sequence in .feeds
File(kind) == [kind |-> kind, feeds |-> <<>>]

FeedsFile(entries) == [kind |-> "feeds", feeds |-> entries]

\* empty_data = {"feeds": []}
EmptyConfig == FeedsFile(<<>>)

\* The loop without its try/except: the first invalid entry ends the load
\* with what was parsed before it
RECURSIVE ParseFeeds_StopsAtInvalid(_)
ParseFeeds_StopsAtInvalid(feeds_data) ==
    IF Len(feeds_data) = 0 THEN <<>>
    ELSE LET feed_data == Head(feeds_data)
         IN  IF FeedOk(feed_data)
             THEN <<Feed(feed_data.name, feed_data.url, feed_data.window_size)>>
                  \o ParseFeeds_StopsAtInvalid(Tail(feeds_data))
             ELSE <<>>

\* The loop "for feed_data in feeds_data" of load_feeds (lines 77-84)
RECURSIVE ParseFeeds(_)
ParseFeeds(feeds_data) ==
    IF Len(feeds_data) = 0 THEN <<>>
    ELSE LET feed_data == Head(feeds_data)
             rest      == ParseFeeds(Tail(feeds_data))
         IN  IF FeedOk(feed_data)
             THEN <<Feed(feed_data.name, feed_data.url, feed_data.window_size)>> \o rest
             ELSE rest

\* load_feeds taking every root that is not a mapping for an empty file
LoadOutcome_NoShapeCheck(content) ==
    CASE content.kind \in {"empty", "null", "nofeeds", "scalar", "list"} ->
             [act |-> "return", feeds |-> <<>>]
      [] content.kind = "feeds" -> [act |-> "return", feeds |-> ParseFeeds(content.feeds)]
      [] OTHER -> [act |-> "rebuild", feeds |-> <<>>]

\* load_feeds taking an empty file for a corrupt one
LoadOutcome_EmptyRebuilt(content) ==
    CASE content.kind \in {"null", "nofeeds"} -> [act |-> "return", feeds |-> <<>>]
      [] content.kind = "feeds" -> [act |-> "return", feeds |-> ParseFeeds(content.feeds)]
      [] OTHER -> [act |-> "rebuild", feeds |-> <<>>]

\* What the try block of load_feeds does with the file's content (60-103):
\* "return" the feeds, or "rebuild" the empty file and return [].
LoadOutcome(content) ==
    CASE content.kind \in {"empty", "null", "nofeeds"} -> [act |-> "return", feeds |-> <<>>]
      [] content.kind = "feeds" -> [act |-> "return", feeds |-> ParseFeeds(content.feeds)]
      [] OTHER -> [act |-> "rebuild", feeds |-> <<>>]

\* The validation loop of save_feeds (lines 118-120)
AllFeeds(feeds) == \A i \in 1..Len(feeds) : feeds[i].cls = "Feed"

\* feeds_data of save_feeds (lines 133-140)
FeedsData(feeds) == [i \in 1..Len(feeds) |-> model_dump(feeds[i])]


\* The names in the file's "feeds" sequence are pairwise distinct
NamesDistinct(content) ==
    \A i, j \in 1..Len(content.feeds) :
        i # j => content.feeds[i].name # content.feeds[j].name

\* The same, comparing the names without their surrounding whitespace
StrippedNamesDistinct(content) ==
    \A i, j \in 1..Len(content.feeds) :
        i # j => Strip(content.feeds[i].name) # Strip(content.feeds[j].name)

(***************************************************************************)
(* Inputs                                                                  *)
(***************************************************************************)

Procs == {1, 2}

\* Failures of the file system injected in one run
MaxFaults == 1

\* The add-feed flow is started only while the list has room for one more
MaxFeeds == 3

\* Longest "feeds" sequence of an initial config file
MaxInitFeeds == 2

\* Longest list handed to save_feeds by a direct caller
MaxSaveLen == 2

nA == <<"a">>
nB == <<"b">>
nSpA == <<" ", "a">>
nA2 == FormatName(nA, 2)

uStream == Url("https", "h", "/s.m3u8")
uNoPath == Url("https", "h", "")
uBad == Url("", "", "not-a-url")
uRtsp == Url("rtsp", "h", "/s")

\* Mappings found in config files: valid ones (one with a name carrying
\* whitespace and a URL without a path) and invalid ones (bad URL, empty name)
InitEntries ==
    { Entry(nA, uStream, None),
      Entry(nSpA, uNoPath, None),
      Entry(nA2, uStream, DEFAULT_WINDOW_SIZE),
      Entry(nB, uBad, None),
      Entry(<<>>, uStream, None) }

SeqsUpTo(S, n) == UNION { [1..k -> S] : k \in 0..n }

InitFiles ==
    { File(k) : k \in {"missing", "empty", "null", "garbage", "badbytes",
                       "scalar", "list", "nofeeds", "feedsscalar"} }
    \cup { FeedsFile(es) : es \in SeqsUpTo(InitEntries, MaxInitFeeds) }

\* Objects handed to save_feeds by a direct caller
SaveObjects ==
    { Feed(nSpA, uNoPath, None),
      Feed(nA2, uStream, DEFAULT_WINDOW_SIZE),
      NotAFeed }

SaveInputs == SeqsUpTo(SaveObjects, MaxSaveLen)

\* Names typed into the add-feed screen
AddNames == {nA, nA2, nSpA}

AddUrls == {uStream, uRtsp}

UpdateNames == {nA, nB}

UpdateSizes == { <<320, 240>>, <<100, 100>>, <<7680, 4320>>, <<7681, 240>>, <<320, 239>> }

(***************************************************************************)
(* State                                                                   *)
(***************************************************************************)

VARIABLES
    dirExists,   \* the directory .pickazoo exists
    config,      \* the content at the config path
    distinct0,   \* the run started from names pairwise distinct once stripped
    torn,        \* the path holds a file truncated for an in-place write
    stale,       \* processes whose open handle is on a file renamed over
    faults,      \* file-system failures still to inject
    lastRename,  \* the process whose rename put a file at the path last (0: none)
    proc,        \* per process: the call in progress and its locals
    rName,       \* resolve_duplicate_name applied alone: proposed name,
    rExisting,   \*   names of existing_feeds,
    rResult,     \*   and <<returned name>>, or <<>> before the call
    dUrl,        \* detect_url_type / validate_url_accessibility applied alone:
    dProbe,      \*   the URL, what client.head(url) does,
    dType,       \*   <<outcome of detect_url_type>>, or <<>> before the call,
    dValid,      \*   <<outcome of validate_url_accessibility>>, or <<>>
    xHtml,       \* extract_streams_from_html applied alone: html_content,
    xBase,       \*   base_url,
    xStreams,    \*   and <<outcome>>, or <<>> before the call
    screen,      \* the add-feed screen: its fields and what its handlers did
    browser,     \* fetch_html_with_playwright: the call's position and resources
    encoder,     \* a TimelapseEncoder: its fields and what the last call did
    player       \* a VideoPlayer: its fields and what the last call did

vars == <<dirExists, config, distinct0, torn, stale, faults, lastRename, proc,
          rName, rExisting, rResult, dUrl, dProbe, dType, dValid,
          xHtml, xBase, xStreams, screen, browser, encoder, player>>

NoInput == [name |-> <<>>, url |-> Url("", "", ""), width |-> 0, height |-> 0]

\* op: the top-level call; pc: the statement it is at; inp: its arguments;
\* arg: the list handed to save_feeds; feeds: the list load_feeds returned;
\* raised: the exception that left the call; fault: the file-system call
\* that failed in it; cfg0, dir0: the file content and the directory's
\* existence when the call began; tmp: the call's temporary file ("none",
\* "created": opened and not yet complete, "written": complete and closed)
Idle ==
    [op |-> "idle", pc |-> "idle", inp |-> NoInput, arg |-> <<>>, feeds |-> <<>>,
     raised |-> "none", fault |-> "none", cfg0 |-> File("missing"), dir0 |-> FALSE,
     tmp |-> "none"]

Begin(op, pc, inp, arg) ==
    [op |-> op, pc |-> pc, inp |-> inp, arg |-> arg, feeds |-> <<>>,
     raised |-> "none", fault |-> "none", cfg0 |-> config, dir0 |-> dirExists,
     tmp |-> "none"]

FsUnchanged ==
    UNCHANGED <<dirExists, config, distinct0, torn, stale, faults, lastRename>>

\* The variables of the functions applied alone
ExtractUnchanged == UNCHANGED <<xHtml, xBase, xStreams>>

ScreenUnchanged == UNCHANGED screen

MediaUnchanged == UNCHANGED <<browser, encoder, player>>

DiscoveryUnchanged ==
    /\ UNCHANGED <<dUrl, dProbe, dType, dValid>>
    /\ ExtractUnchanged /\ ScreenUnchanged /\ MediaUnchanged

ResolverUnchanged == UNCHANGED <<rName, rExisting, rResult>> /\ DiscoveryUnchanged

\* A file-system call succeeds (TRUE) or, while failures are left, fails
FsOutcomes == IF faults > 0 THEN {TRUE, FALSE} ELSE {TRUE}

Spend(ok) == faults' = IF ok THEN faults ELSE faults - 1

\* The call ends with an exception
Raise(p, err) == [proc[p] EXCEPT !.pc = "done", !.raised = err]

\* The call ends with the exception a failed file-system call led to
Fail(p, at, err) == [proc[p] EXCEPT !.pc = "done", !.raised = err, !.fault = at]

\* load_feeds returns fs: the caller goes on
LoadReturn(p, fs) ==
    LET r == [proc[p] EXCEPT !.feeds = fs]
    IN  CASE r.op = "roundtrip" -> [r EXCEPT !.pc = "S_validate", !.arg = fs]
          [] r.op = "add" -> [r EXCEPT !.pc = "A_resolve"]
          [] r.op = "update" -> [r EXCEPT !.pc = "U_find"]
          [] OTHER -> [r EXCEPT !.pc = "done"]

\* save_feeds returns: the caller goes on
SaveReturn(p) ==
    IF proc[p].op = "saveload" THEN [proc[p] EXCEPT !.pc = "L_mkdir", !.tmp = "none"]
    ELSE [proc[p] EXCEPT !.pc = "done", !.tmp = "none"]

Set(p, r) == proc' = [proc EXCEPT ![p] = r]


(***************************************************************************)
(* Calls                                                                   *)
(***************************************************************************)

\* load_feeds()
CallLoad(p) ==
    /\ proc[p].pc = "idle"
    /\ Set(p, Begin("load", "L_mkdir", NoInput, <<>>))
    /\ FsUnchanged /\ ResolverUnchanged

\* save_feeds(xs)
CallSave(p, xs) ==
    /\ proc[p].pc = "idle"
    /\ Set(p, Begin("save", "S_validate", NoInput, xs))
    /\ FsUnchanged /\ ResolverUnchanged

\* save_feeds(xs) followed by load_feeds()
CallSaveLoad(p, xs) ==
    /\ proc[p].pc = "idle"
    /\ Set(p, Begin("saveload", "S_validate", NoInput, xs))
    /\ FsUnchanged /\ ResolverUnchanged

\* save_feeds(load_feeds())
CallRoundTrip(p) ==
    /\ proc[p].pc = "idle"
    /\ Set(p, Begin("roundtrip", "L_mkdir", NoInput, <<>>))
    /\ FsUnchanged /\ ResolverUnchanged

AddsInFlight == Cardinality({ q \in Procs : proc[q].op = "add" /\ proc[q].pc # "done" })

\* on_name_submitted keeps event.value.strip() as self.feed_name and
\* refuses an empty one (add_feed.py 115-121); later
\* _save_direct_stream_feed(url) starts with that name
CallAdd(p, name, url) ==
    /\ proc[p].pc = "idle"
    /\ Strip(name) # <<>>
    /\ Len(config.feeds) + AddsInFlight < MaxFeeds
    /\ Set(p, Begin("add", "L_mkdir",
                    [NoInput EXCEPT !.name = Strip(name), !.url = url], <<>>))
    /\ FsUnchanged /\ ResolverUnchanged

\* update_feed_window_size(feed_name, width, height)
CallUpdate(p, name, width, height) ==
    /\ proc[p].pc = "idle"
    /\ Set(p, Begin("update", "U_validate",
                    [NoInput EXCEPT !.name = name, !.width = width, !.height = height], <<>>))
    /\ FsUnchanged /\ ResolverUnchanged

\* The caller takes the outcome; the process is free for its next call
Return(p) ==
    /\ proc[p].pc = "done"
    /\ Set(p, Idle)
    /\ FsUnchanged /\ ResolverUnchanged

(***************************************************************************)
(* load_feeds (feed_manager.py 28-103)                                     *)
(***************************************************************************)

\* config_path.parent.mkdir(parents=True, exist_ok=True)   (lines 47-51)
LoadMkdir(p) ==
    /\ proc[p].pc = "L_mkdir"
    /\ \E ok \in FsOutcomes :
          /\ Spend(ok)
          /\ dirExists' = (dirExists \/ ok)
          /\ Set(p, IF ok THEN [proc[p] EXCEPT !.pc = "L_exists"] ELSE Fail(p, "mkdir", "OSError"))
    /\ UNCHANGED <<config, distinct0, torn, stale, lastRename>> /\ ResolverUnchanged

\* if not config_path.exists()   (lines 54-57)
LoadExists(p) ==
    /\ proc[p].pc = "L_exists"
    /\ Set(p, [proc[p] EXCEPT !.pc = IF config.kind = "missing" THEN "E_open" ELSE "L_read"])
    /\ FsUnchanged /\ ResolverUnchanged

\* The try block: open, yaml.safe_load, validate, parse   (lines 60-103)
LoadRead(p) ==
    /\ proc[p].pc = "L_read"
    /\ \E ok \in FsOutcomes :
          /\ Spend(ok)
          /\ Set(p, IF ~ok \/ config.kind = "missing" THEN Fail(p, "read", "OSError")
                    ELSE IF LoadOutcome(config).act = "return"
                         THEN LoadReturn(p, LoadOutcome(config).feeds)
                         ELSE [proc[p] EXCEPT !.pc = "E_open"])
    /\ UNCHANGED <<dirExists, config, distinct0, torn, stale, lastRename>> /\ ResolverUnchanged

\* _create_empty_config_file: config_path.open("w") creates or truncates
\* the file at the path itself   (line 241)
CreateEmptyOpen(p) ==
    /\ proc[p].pc = "E_open"
    /\ \E ok \in FsOutcomes :
          /\ Spend(ok)
          /\ config' = IF ok THEN File("empty") ELSE config
          /\ torn' = (torn \/ ok)
          /\ stale' = stale \ {p}
          /\ Set(p, IF ok THEN [proc[p] EXCEPT !.pc = "E_dump"] ELSE Fail(p, "open", "OSError"))
    /\ UNCHANGED <<dirExists, distinct0, lastRename>> /\ ResolverUnchanged

\* _create_empty_config_file: yaml.safe_dump(empty_data, f) and close
\* (line 242), then load_feeds returns [].  A handle on a file that was
\* renamed over writes to that file, not to the one now at the path.
CreateEmptyDump(p) ==
    /\ proc[p].pc = "E_dump"
    /\ config' = IF p \in stale THEN config ELSE EmptyConfig
    /\ torn' = IF p \in stale THEN torn ELSE FALSE
    /\ stale' = stale \ {p}
    /\ Set(p, LoadReturn(p, <<>>))
    /\ UNCHANGED <<dirExists, distinct0, faults, lastRename>> /\ ResolverUnchanged

(***************************************************************************)
(* save_feeds (feed_manager.py 106-170)                                    *)
(***************************************************************************)

\* yaml.safe_dump writing to the config path itself, not to the temporary
\* file: the file at the path is truncated, then filled
SaveDump_InPlace(p) ==
    /\ proc[p].pc = "S_dump"
    /\ config' = File("empty")
    /\ torn' = TRUE
    /\ Set(p, [proc[p] EXCEPT !.pc = "S_move", !.tmp = "written"])
    /\ UNCHANGED <<dirExists, distinct0, stale, faults, lastRename>> /\ ResolverUnchanged

\* save_feeds without its isinstance check
SaveValidate_Unchecked(p) ==
    /\ proc[p].pc = "S_validate"
    /\ Set(p, [proc[p] EXCEPT !.pc = "S_mkdir"])
    /\ FsUnchanged /\ ResolverUnchanged

\* for feed in feeds: if not isinstance(feed, Feed): raise ValueError
SaveValidate(p) ==
    /\ proc[p].pc = "S_validate"
    /\ Set(p, IF AllFeeds(proc[p].arg) THEN [proc[p] EXCEPT !.pc = "S_mkdir"]
              ELSE Raise(p, "ValueError"))
    /\ FsUnchanged /\ ResolverUnchanged

\* config_path.parent.mkdir(parents=True, exist_ok=True)   (lines 126-130)
SaveMkdir(p) ==
    /\ proc[p].pc = "S_mkdir"
    /\ \E ok \in FsOutcomes :
          /\ Spend(ok)
          /\ dirExists' = (dirExists \/ ok)
          /\ Set(p, IF ok THEN [proc[p] EXCEPT !.pc = "S_tmp"] ELSE Fail(p, "mkdir", "OSError"))
    /\ UNCHANGED <<config, distinct0, torn, stale, lastRename>> /\ ResolverUnchanged

\* tempfile.NamedTemporaryFile(..., delete=False, dir=config_path.parent)
\* (lines 144-147).  When it fails, tmp_path was never bound, and the
\* handler's "if tmp_path.exists()" (line 156) raises UnboundLocalError.
SaveTempFile(p) ==
    /\ proc[p].pc = "S_tmp"
    /\ \E ok \in FsOutcomes :
          /\ Spend(ok)
          /\ Set(p, IF ok THEN [proc[p] EXCEPT !.pc = "S_dump", !.tmp = "created"]
                    ELSE Fail(p, "tmp", "UnboundLocalError"))
    /\ UNCHANGED <<dirExists, config, distinct0, torn, stale, lastRename>> /\ ResolverUnchanged

\* yaml.safe_dump(data, tmp_file, ...) and close (line 148); on failure the
\* handler unlinks the temporary file and re-raises (lines 153-161)
SaveDump(p) ==
    /\ proc[p].pc = "S_dump"
    /\ \E ok \in FsOutcomes :
          /\ Spend(ok)
          /\ Set(p, IF ok THEN [proc[p] EXCEPT !.pc = "S_move", !.tmp = "written"]
                    ELSE [Fail(p, "dump", "OSError") EXCEPT !.tmp = "none"])
    /\ UNCHANGED <<dirExists, config, distinct0, torn, stale, lastRename>> /\ ResolverUnchanged

\* A save that appends its entries to the file at the path
SaveMove_Merging(p) ==
    /\ proc[p].pc = "S_move"
    /\ config' = FeedsFile(config.feeds \o FeedsData(proc[p].arg))
    /\ torn' = FALSE
    /\ stale' = { q \in Procs : proc[q].pc = "E_dump" }
    /\ lastRename' = p
    /\ Set(p, SaveReturn(p))
    /\ UNCHANGED <<dirExists, distinct0, faults>> /\ ResolverUnchanged

\* shutil.move(str(tmp_path), str(config_path)) (line 151): os.rename within
\* one directory puts the temporary file at the path in one step; on
\* failure the handler unlinks the temporary file and re-raises.
SaveMove(p) ==
    /\ proc[p].pc = "S_move"
    /\ \E ok \in FsOutcomes :
          /\ Spend(ok)
          /\ config' = IF ok THEN FeedsFile(FeedsData(proc[p].arg)) ELSE config
          /\ torn' = IF ok THEN FALSE ELSE torn
          /\ stale' = IF ok THEN { q \in Procs : proc[q].pc = "E_dump" } ELSE stale
          /\ lastRename' = IF ok THEN p ELSE lastRename
          /\ Set(p, IF ok THEN SaveReturn(p)
                    ELSE [Fail(p, "move", "OSError") EXCEPT !.tmp = "none"])
    /\ UNCHANGED <<dirExists, distinct0>> /\ ResolverUnchanged

(***************************************************************************)
(* The flows around load_feeds and save_feeds                              *)
(***************************************************************************)

FeedNames(feeds) == { feeds[i].name : i \in 1..Len(feeds) }

\* _save_direct_stream_feed after load_feeds (add_feed.py 376-383): resolve
\* the name, build the Feed, append, hand the list to save_feeds.  Any
\* exception is caught by the screen (line 392).
AddResolve(p) ==
    /\ proc[p].pc = "A_resolve"
    /\ Len(proc[p].feeds) < MaxFeeds
    /\ LET existing_feeds == proc[p].feeds
           resolved_name  == resolve_duplicate_name(proc[p].inp.name, FeedNames(existing_feeds))
           feed           == Feed(resolved_name, proc[p].inp.url, DEFAULT_WINDOW_SIZE)
       IN  Set(p, IF UrlOk(proc[p].inp.url)
                  THEN [proc[p] EXCEPT !.pc = "S_validate", !.arg = Append(existing_feeds, feed)]
                  ELSE Raise(p, "ValidationError"))
    /\ FsUnchanged /\ ResolverUnchanged

\* validate_window_size looking at the width only
validate_window_size_WidthOnly(width, height) == 320 <= width /\ width <= 7680

\* validate_window_size(width, height)   (line 278)
validate_window_size(width, height) ==
    320 <= width /\ width <= 7680 /\ 240 <= height /\ height <= 4320

\* update_feed_window_size: get_validated_window_size first (line 364)
UpdateValidate(p) ==
    /\ proc[p].pc = "U_validate"
    /\ Set(p, IF validate_window_size(proc[p].inp.width, proc[p].inp.height)
              THEN [proc[p] EXCEPT !.pc = "L_mkdir"]
              ELSE Raise(p, "ValueError"))
    /\ FsUnchanged /\ ResolverUnchanged

\* The loop of update_feed_window_size without its break: every feed of
\* that name gets the size
UpdateFind_EveryMatch(p) ==
    /\ proc[p].pc = "U_find"
    /\ LET feeds == proc[p].feeds
           hits  == { i \in 1..Len(feeds) : feeds[i].name = proc[p].inp.name }
       IN  Set(p, IF hits = {} THEN Raise(p, "FeedNotFoundError")
                  ELSE [proc[p] EXCEPT
                          !.pc = "S_validate",
                          !.arg = [i \in 1..Len(feeds) |->
                                     IF i \in hits
                                     THEN [feeds[i] EXCEPT !.window_size =
                                             WindowSize(proc[p].inp.width, proc[p].inp.height)]
                                     ELSE feeds[i]]])
    /\ FsUnchanged /\ ResolverUnchanged

\* update_feed_window_size after load_feeds (lines 370-382): the first feed
\* of that name gets the size; without one, FeedNotFoundError
UpdateFind(p) ==
    /\ proc[p].pc = "U_find"
    /\ LET feeds == proc[p].feeds
           hits  == { i \in 1..Len(feeds) : feeds[i].name = proc[p].inp.name }
       IN  Set(p, IF hits = {} THEN Raise(p, "FeedNotFoundError")
                  ELSE LET i == CHOOSE x \in hits : \A y \in hits : x <= y
                       IN  [proc[p] EXCEPT
                              !.pc = "S_validate",
                              !.arg = [feeds EXCEPT ![i].window_size =
                                         WindowSize(proc[p].inp.width, proc[p].inp.height)]])
    /\ FsUnchanged /\ ResolverUnchanged

\* One statement of the call in progress
Step(p) ==
    \/ LoadMkdir(p) \/ LoadExists(p) \/ LoadRead(p)
    \/ CreateEmptyOpen(p) \/ CreateEmptyDump(p)
    \/ SaveValidate(p) \/ SaveMkdir(p) \/ SaveTempFile(p) \/ SaveDump(p) \/ SaveMove(p)
    \/ AddResolve(p) \/ UpdateValidate(p) \/ UpdateFind(p)
    \/ Return(p)

(***************************************************************************)
(* The config store used by one process                                    *)
(***************************************************************************)

InitProcs == proc = [p \in Procs |-> Idle]

InitExtractOff == xHtml = <<>> /\ xBase = "" /\ xStreams = <<>>

InitScreenOff == screen = <<>>

InitMediaOff == browser = <<>> /\ encoder = <<>> /\ player = <<>>

InitDiscoveryOff ==
    /\ dUrl = "" /\ dProbe = <<>> /\ dType = <<>> /\ dValid = <<>>
    /\ InitExtractOff /\ InitScreenOff /\ InitMediaOff

InitResolverOff == rName = <<>> /\ rExisting = {} /\ rResult = <<>> /\ InitDiscoveryOff

InitStore ==
    /\ config \in InitFiles
    /\ distinct0 = StrippedNamesDistinct(config)
    /\ dirExists \in (IF config.kind = "missing" THEN {TRUE, FALSE} ELSE {TRUE})
    /\ torn = FALSE
    /\ stale = {}
    /\ faults = MaxFaults
    /\ lastRename = 0
    /\ InitProcs
    /\ InitResolverOff

NextStore ==
    \/ CallLoad(1)
    \/ \E xs \in SaveInputs : CallSave(1, xs)
    \/ \E xs \in SaveInputs : CallSaveLoad(1, xs)
    \/ CallRoundTrip(1)
    \/ \E name \in AddNames, url \in AddUrls : CallAdd(1, name, url)
    \/ \E name \in UpdateNames, size \in UpdateSizes : CallUpdate(1, name, size[1], size[2])
    \/ Step(1)

SpecStore == InitStore /\ [][NextStore]_vars


(***************************************************************************)
(* Claims about load_feeds and save_feeds called by one process            *)
(***************************************************************************)

P1 == proc[1]

LoadDone == P1.pc = "done" /\ P1.op = "load"

\* C2 as stated: from a missing file, unparseable content (malformed YAML or
\* bytes that are not UTF-8) or a parseable file of the wrong shape (a root
\* that is not a mapping, the null root included, or "feeds" not a
\* sequence), load_feeds returns [] without raising (unless the file system
\* fails) and leaves {feeds: []} at the path.
C2_RecoversEveryWrongShape ==
    (LoadDone /\ P1.fault = "none"
       /\ P1.cfg0.kind \in {"missing", "garbage", "badbytes", "null", "scalar",
                            "list", "feedsscalar"})
    => (P1.raised = "none" /\ P1.feeds = <<>> /\ config = EmptyConfig)

\* C2 amended: the same for a missing file, unparseable content, a root that
\* is a scalar or a sequence, or "feeds" not a sequence; a document whose
\* root is null is taken for an empty file and left as it is.
C2_RecoversCorruptFile ==
    (LoadDone /\ P1.fault = "none"
       /\ P1.cfg0.kind \in {"missing", "garbage", "badbytes", "scalar", "list",
                            "feedsscalar"})
    => (P1.raised = "none" /\ P1.feeds = <<>> /\ config = EmptyConfig)

C2_Witness ==
    /\ LoadDone /\ P1.cfg0.kind = "badbytes"
    /\ P1.raised = "none" /\ P1.feeds = <<>> /\ config = EmptyConfig

\* C23: when the config file exists and is empty, load_feeds returns the
\* empty sequence (unless a file-system call fails) and does not rewrite
\* the file: during and after the call the content at the path is the
\* content from before the call.
C23_EmptyFileLeftAlone ==
    (P1.op = "load" /\ P1.cfg0.kind = "empty") =>
        /\ config = P1.cfg0
        /\ ~torn
        /\ (P1.pc = "done" /\ P1.fault = "none") => (P1.raised = "none" /\ P1.feeds = <<>>)

C23_Witness ==
    /\ LoadDone /\ P1.cfg0 = File("empty")
    /\ P1.raised = "none" /\ P1.feeds = <<>> /\ config = File("empty")

SomeInvalid(entries) == \E i \in 1..Len(entries) : ~FeedOk(entries[i])

ValidatedEntry(e) == Feed(e.name, e.url, e.window_size)

ValidEntries(entries) ==
    LET kept == SelectSeq(entries, FeedOk)
    IN  [i \in 1..Len(kept) |-> ValidatedEntry(kept[i])]

\* C3: when the file is a mapping whose "feeds" sequence has entries that
\* fail Feed validation, load_feeds returns exactly the valid entries in
\* file order, does not raise (unless the file system fails), and leaves the
\* file as it was.
C3_SkipsInvalidEntries ==
    (LoadDone /\ P1.fault = "none" /\ P1.cfg0.kind = "feeds" /\ SomeInvalid(P1.cfg0.feeds))
    => (P1.raised = "none" /\ P1.feeds = ValidEntries(P1.cfg0.feeds) /\ config = P1.cfg0)

C3_Witness ==
    /\ LoadDone /\ P1.cfg0.kind = "feeds" /\ Len(P1.cfg0.feeds) = 2
    /\ ~FeedOk(P1.cfg0.feeds[1]) /\ FeedOk(P1.cfg0.feeds[2])
    /\ Len(P1.feeds) = 1 /\ config = P1.cfg0

InSave == P1.op \in {"save", "saveload"} /\ P1.pc # "idle"

\* C4: when an element of the list handed to save_feeds is not a Feed, the
\* call ends with ValueError and, at every point of the call, the config
\* file and its directory are as they were when it began and the call has
\* no temporary file.
C4_RejectsBeforeWriting ==
    (InSave /\ ~AllFeeds(P1.arg))
    => /\ config = P1.cfg0
       /\ dirExists = P1.dir0
       /\ P1.tmp = "none"
       /\ P1.pc \in {"S_validate", "done"}
       /\ (P1.pc = "done" => P1.raised = "ValueError")

C4_Witness ==
    /\ InSave /\ P1.pc = "done" /\ P1.raised = "ValueError"
    /\ Len(P1.arg) = 2 /\ P1.arg[1].cls = "Feed" /\ P1.arg[2].cls # "Feed"
    /\ ~dirExists

\* C5 as stated: when a step of save_feeds' write fails (creating the
\* temporary file, writing it, renaming it), the call ends with that
\* OSError, without a temporary file, and the config file has the content
\* it had when the call began.
C5_ReraisesAndCleansUp ==
    (InSave /\ P1.pc = "done" /\ P1.fault \in {"tmp", "dump", "move"})
    => (P1.raised = "OSError" /\ P1.tmp = "none" /\ config = P1.cfg0)

\* C6: save_feeds(xs) followed by load_feeds() returns xs, for every list xs
\* of Feed objects: same length, order, names, URLs and window sizes.
C6_SaveThenLoad ==
    (P1.op = "saveload" /\ P1.pc = "done" /\ P1.raised = "none")
    => P1.feeds = P1.arg

C6_Witness ==
    /\ P1.op = "saveload" /\ P1.pc = "done" /\ P1.raised = "none"
    /\ Len(P1.arg) = 2 /\ P1.arg[1].window_size.set /\ ~P1.arg[2].window_size.set
    /\ P1.arg[1] # P1.arg[2]
    /\ P1.feeds = P1.arg

OnlyValid(content) ==
    /\ content.kind = "feeds"
    /\ \A i \in 1..Len(content.feeds) : FeedOk(content.feeds[i])

RoundTripDone == P1.op = "roundtrip" /\ P1.pc = "done" /\ P1.raised = "none"

NormalEntry(e) ==
    [name |-> Strip(e.name),
     url |-> [scheme |-> e.url.scheme, host |-> e.url.host,
              path |-> IF e.url.path = "" THEN "/" ELSE e.url.path],
     window_size |-> e.window_size]

IsNormalEntry(e) ==
    /\ ~IsSpace(e.name[1]) /\ ~IsSpace(e.name[Len(e.name)])
    /\ e.url.path # ""

UpdateDone == P1.op = "update" /\ P1.pc = "done" /\ P1.raised = "none"

\* The index of the first of entries whose name is name (0: none)
FirstNamed(entries, name) ==
    LET hits == { i \in 1..Len(entries) : entries[i].name = name }
    IN  IF hits = {} THEN 0 ELSE CHOOSE i \in hits : \A j \in hits : i <= j

\* entries with the window_size of entry i set to (width, height)
Resized(entries, i, width, height) ==
    [k \in 1..Len(entries) |->
       IF k = i THEN [entries[k] EXCEPT !.window_size = WindowSize(width, height)]
       ELSE entries[k]]

\* C33 as stated: an update_feed_window_size(name, w, h) that returns has
\* changed only the window_size of the first stored feed whose name equals
\* name, to (w, h); every other entry, all names and URLs and the order of
\* the entries are as before the call.
C33_UpdateChangesOnlyWindowSize ==
    UpdateDone =>
        LET i == FirstNamed(P1.cfg0.feeds, P1.inp.name)
        IN  /\ i # 0
            /\ config = FeedsFile(Resized(P1.cfg0.feeds, i, P1.inp.width, P1.inp.height))

\* C33 amended: the call rewrites the file from what load_feeds returned:
\* the valid entries in file order, names stripped and URLs normalised,
\* with (w, h) as window_size of the first of them whose stripped name
\* equals name.  When every stored entry is valid, with a stripped name and
\* a normalised URL, only the window_size of the first stored feed named
\* name has changed.
C33_UpdateRewritesLoadedFeeds ==
    UpdateDone =>
        LET kept   == SelectSeq(P1.cfg0.feeds, FeedOk)
            loaded == [k \in 1..Len(kept) |-> NormalEntry(kept[k])]
            i      == FirstNamed(loaded, P1.inp.name)
        IN  /\ i # 0
            /\ config = FeedsFile(Resized(loaded, i, P1.inp.width, P1.inp.height))
            /\ (\A k \in 1..Len(P1.cfg0.feeds) :
                    FeedOk(P1.cfg0.feeds[k]) /\ IsNormalEntry(P1.cfg0.feeds[k]))
                 => config = FeedsFile(Resized(P1.cfg0.feeds,
                                               FirstNamed(P1.cfg0.feeds, P1.inp.name),
                                               P1.inp.width, P1.inp.height))

C33_Witness ==
    /\ UpdateDone
    /\ Len(P1.cfg0.feeds) = 2
    /\ P1.cfg0.feeds[1] = Entry(nA, uStream, None)
    /\ P1.cfg0.feeds[2] = Entry(nA, uStream, None)
    /\ config.feeds[1] = Entry(nA, uStream, WindowSize(320, 240))
    /\ config.feeds[2] = P1.cfg0.feeds[2]

\* C34: update_feed_window_size does not run save_feeds on an error path:
\* with a width outside [320, 7680] or a height outside [240, 4320] it ends
\* with ValueError before the config file or its directory is read or
\* touched, and with valid dimensions and no feed of that name it ends with
\* FeedNotFoundError without having started to write the feed list.
C34_UpdateErrorsSaveNothing ==
    P1.op = "update" =>
        LET in_bounds == /\ 320 <= P1.inp.width /\ P1.inp.width <= 7680
                         /\ 240 <= P1.inp.height /\ P1.inp.height <= 4320
            found     == FirstNamed(P1.feeds, P1.inp.name) # 0
            saving    == P1.pc \in {"S_validate", "S_mkdir", "S_tmp", "S_dump", "S_move"}
        IN  /\ ~in_bounds =>
                  /\ P1.pc \in {"U_validate", "done"}
                  /\ P1.pc = "done" => P1.raised = "ValueError"
                  /\ config = P1.cfg0 /\ dirExists = P1.dir0 /\ ~torn
            /\ saving => (in_bounds /\ found)
            /\ (P1.pc = "done" /\ P1.raised = "FeedNotFoundError") =>
                  /\ in_bounds /\ ~found
                  /\ P1.arg = <<>> /\ P1.tmp = "none"
            /\ (P1.pc = "done" /\ P1.fault = "none" /\ in_bounds /\ ~found) =>
                  P1.raised = "FeedNotFoundError"

C34_Witness ==
    /\ P1.op = "update" /\ P1.pc = "done" /\ P1.raised = "FeedNotFoundError"
    /\ P1.inp.name = nB /\ P1.inp.width = 7680 /\ P1.inp.height = 4320
    /\ Len(P1.cfg0.feeds) = 2 /\ Len(P1.feeds) = 2
    /\ config = P1.cfg0


(***************************************************************************)
(* resolve_duplicate_name applied to a name and a set of existing names    *)
(***************************************************************************)

\* Most existing feeds in one application of resolve_duplicate_name
MaxExisting == 3

\* Names with and without suffix: a nested suffix, a suffix after two
\* spaces, a suffix written with a leading zero, a suffix whose successor
\* has two digits
NameUniverse ==
    { nA, nB, nA2, FormatName(nA, 3), FormatName(nA, 9), FormatName(nA2, 2),
      <<"a", " ", " ", "(", "3", ")">>, <<"a", " ", " ", "(", "5", ")">>,
      <<"a", " ", "(", "0", "2", ")">> }

InitResolve ==
    /\ rName \in NameUniverse
    /\ rExisting \in { S \in SUBSET NameUniverse : Cardinality(S) <= MaxExisting }
    /\ rResult = <<>>
    /\ config = File("missing") /\ distinct0 = TRUE /\ dirExists = FALSE
    /\ torn = FALSE /\ stale = {} /\ faults = 0 /\ lastRename = 0
    /\ InitProcs
    /\ InitDiscoveryOff

\* resolved_name = resolve_duplicate_name(name, existing_feeds)
Resolve ==
    /\ rResult = <<>>
    /\ rResult' = <<resolve_duplicate_name(rName, rExisting)>>
    /\ UNCHANGED <<rName, rExisting, proc>>
    /\ FsUnchanged /\ DiscoveryUnchanged

NextResolve == Resolve

SpecResolve == InitResolve /\ [][NextResolve]_vars

Resolved == rResult # <<>>

\* The base a name has once a trailing whitespace-separated "(N)" is
\* stripped, and the N it carried (1 for a name without suffix)
BaseOf(name) == IF SuffixMatch(name).matched THEN SuffixMatch(name).base ELSE name

SuffixOf(name) == IF SuffixMatch(name).matched THEN SuffixMatch(name).num ELSE 1

MaxOf(S) == CHOOSE m \in S : \A x \in S : x <= m

\* The N of an existing name that is exactly base, one space, "(N)"
ExactSuffixes(base, existing) ==
    { IntOf(SubSeq(e, Len(base) + 3, Len(e) - 1)) :
        e \in { x \in existing :
                  /\ Len(x) >= Len(base) + 4
                  /\ SubSeq(x, 1, Len(base)) = base
                  /\ x[Len(base) + 1] = " " /\ x[Len(base) + 2] = "("
                  /\ x[Len(x)] = ")"
                  /\ \A k \in (Len(base) + 3)..(Len(x) - 1) : IsDigit(x[k]) } }

\* The suffixes of the existing names whose base is the given one when the
\* suffix may follow the base after any run of whitespace
LooseSuffixes(base, existing) ==
    { SuffixOf(e) : e \in { x \in existing :
                              SuffixMatch(x).matched /\ BaseOf(x) = base } }

\* The base of a name when only a suffix of one space and "(N)" is stripped
ExactBaseOf(name) ==
    LET n  == Len(name)
        cs == { c \in 2..n :
                  /\ c + 3 <= n
                  /\ name[c] = " " /\ name[c + 1] = "(" /\ name[n] = ")"
                  /\ \A k \in (c + 2)..(n - 1) : IsDigit(name[k]) }
    IN  IF cs = {} THEN name ELSE SubSeq(name, 1, (CHOOSE c \in cs : TRUE) - 1)

Unsuffixed(base, existing) == { 1 : e \in { x \in existing : x = base } }

C9_ResultIsUnused == Resolved => rResult[1] \notin rExisting

C9_Witness ==
    /\ Resolved
    /\ rName = nA2 /\ nA \notin rExisting /\ FormatName(nA, 3) \in rExisting
    /\ rResult[1] = FormatName(nA, 4)


(***************************************************************************)
(* Two processes on one config path: load_feeds, the add-feed flow and     *)
(* update_feed_window_size, their statements interleaved                   *)
(***************************************************************************)

\* Initial files whose names, as written in the file, are pairwise distinct
ConcFiles ==
    { File("missing"), File("garbage"),
      FeedsFile(<<Entry(nA, uStream, None)>>),
      FeedsFile(<<Entry(nSpA, uNoPath, None), Entry(nA, uStream, None)>>) }

ConcAddNames == {nA, nSpA}

InitConc ==
    /\ config \in ConcFiles
    /\ distinct0 = StrippedNamesDistinct(config)
    /\ dirExists = (config.kind # "missing")
    /\ torn = FALSE
    /\ stale = {}
    /\ faults = 0
    /\ lastRename = 0
    /\ InitProcs
    /\ InitResolverOff

NextConc ==
    \E p \in Procs :
        \/ CallLoad(p)
        \/ \E name \in ConcAddNames : CallAdd(p, name, uStream)
        \/ CallUpdate(p, nA, 320, 240)
        \/ Step(p)

SpecConc == InitConc /\ [][NextConc]_vars

\* The statements of save_feeds
SavePcs == {"S_validate", "S_mkdir", "S_tmp", "S_dump", "S_move"}

C10_NamesStayDistinct == NamesDistinct(config)

\* C10 amended: from a file whose names are pairwise distinct once their
\* surrounding whitespace is stripped, the names in the file stay pairwise
\* distinct (stripped or not) through add-feed flows and window-size
\* updates of one or two processes.
C10_StrippedNamesStayDistinct ==
    distinct0 => (StrippedNamesDistinct(config) /\ NamesDistinct(config))

\* Both processes added "a" to a file that had "a": three names
C10_Witness ==
    /\ distinct0 /\ Len(config.feeds) = 3
    /\ \A p \in Procs : /\ proc[p].op = "add" /\ proc[p].pc = "done"
                        /\ proc[p].raised = "none" /\ proc[p].inp.name = nA
    /\ config.feeds[1].name = nA

\* C32: every operation that writes the config path, save_feeds and the
\* rewrite load_feeds does for a missing or corrupt file, replaces the file
\* in one step, so that a reader in another process that runs while
\* load_feeds recovers never reads a truncated or partly written file.
C32_ReadersNeverSeeTruncatedFile ==
    [][\A q \in Procs :
         (proc[q].pc = "L_read" /\ proc'[q] # proc[q]) => ~torn]_vars

\* The process has run load_feeds, its change and save_feeds to the end
Saved(p) ==
    /\ proc[p].pc = "done" /\ proc[p].op \in {"add", "update"}
    /\ proc[p].raised = "none"

UpperLetters == "ABCDEFGHIJKLMNOPQRSTUVWXYZ"
LowerLetters == "abcdefghijklmnopqrstuvwxyz"

CharAt(s, i) == SubSeq(s, i, i)

LowerChar(c) ==
    IF \E i \in 1..Len(UpperLetters) : CharAt(UpperLetters, i) = c
    THEN CharAt(LowerLetters, CHOOSE i \in 1..Len(UpperLetters) : CharAt(UpperLetters, i) = c)
    ELSE c

\* str.lower()
RECURSIVE lower(_)
lower(s) == IF Len(s) = 0 THEN "" ELSE LowerChar(CharAt(s, 1)) \o lower(SubSeq(s, 2, Len(s)))

\* str.startswith(prefix)
startswith(s, prefix) == Len(prefix) <= Len(s) /\ SubSeq(s, 1, Len(prefix)) = prefix

\* s.endswith(suffix): what re.search(r"\.ext$", s) tests for a literal ext
endswith(s, suffix) ==
    Len(suffix) <= Len(s) /\ SubSeq(s, Len(s) - Len(suffix) + 1, Len(s)) = suffix

\* "sub in s"
Contains(s, sub) ==
    \E i \in 1..(Len(s) - Len(sub) + 1) : SubSeq(s, i, i + Len(sub) - 1) = sub

(***************************************************************************)
(* The HEAD probe: client.head(url, follow_redirects=True)                 *)
(***************************************************************************)

\* Most redirects a probe response reports (httpx itself stops at 20)
MaxRedirects == 7

\* A header that is absent, and one that is present
Absent == <<>>
Header(value) == <<value>>

\* The probe returned a response
Response(redirect_count, status_code, content_type) ==
    [exc |-> "none", redirects |-> redirect_count, status_code |-> status_code,
     content_type |-> content_type]

\* The probe raised an exception of class exc
Failure(exc) == [exc |-> exc, redirects |-> 0, status_code |-> 0, content_type |-> Absent]

\* The classes above an httpx exception class, as the except clauses see them
Bases(exc) ==
    CASE exc \in {"ConnectTimeout", "ReadTimeout"}
           -> {"TimeoutException", "TransportError", "RequestError", "HTTPError"}
      [] exc \in {"ConnectError", "ReadError"}
           -> {"NetworkError", "TransportError", "RequestError", "HTTPError"}
      [] exc \in {"RemoteProtocolError", "UnsupportedProtocol"}
           -> {"TransportError", "RequestError", "HTTPError"}
      [] exc = "TooManyRedirects" -> {"RequestError", "HTTPError"}
      [] exc = "HTTPStatusError" -> {"HTTPError"}
      [] OTHER -> {}

\* "except cls as e" catches e
IsInstance(exc, cls) == cls = exc \/ cls \in Bases(exc) \/ cls = "Exception"

(***************************************************************************)
(* detect_url_type (feed_discovery.py 196-286)                             *)
(***************************************************************************)

\* The call returned url_type after so many HEAD requests
DetectReturn(url_type, requests) ==
    [returned |-> url_type, raised |-> "none", message |-> "", user_message |-> "",
     requests |-> requests]

\* The call raised cls(message, user_message) after one HEAD request;
\* FeedDiscoveryError.__init__ keeps user_message or, without one, message
DetectRaise(cls, message, user_message) ==
    [returned |-> "none", raised |-> cls, message |-> message,
     user_message |-> IF user_message = "" THEN message ELSE user_message,
     requests |-> 1]

\* The fast path compared without re.IGNORECASE
FastPath_CaseSensitive(url) ==
    \/ \E ext \in {".m3u8", ".mp4", ".webm", ".mkv", ".flv"} : endswith(url, ext)
    \/ \E scheme \in {"rtsp://", "rtmp://"} : Contains(url, scheme)

\* direct_stream_patterns searched with re.IGNORECASE   (lines 214-227)
FastPath(url) ==
    \/ \E ext \in {".m3u8", ".mp4", ".webm", ".mkv", ".flv"} : endswith(lower(url), ext)
    \/ \E scheme \in {"rtsp://", "rtmp://"} : Contains(lower(url), scheme)

\* A limit that already refuses five redirects
ExceedsRedirectLimit_AtFive(redirect_count) == redirect_count >= 5

\* if redirect_count > 5   (lines 236, 454)
ExceedsRedirectLimit(redirect_count) == redirect_count > 5

\* A classification that tests "text/html" after the stream types
ContentTypeClass_StreamsFirst(content_type) ==
    IF \E prefix \in {"video/", "application/vnd.apple.mpegurl", "application/x-mpegurl"} :
           startswith(content_type, prefix)
    THEN "DIRECT_STREAM"
    ELSE "HTML_PAGE"

\* The Content-Type tests on the lower-cased header value   (lines 246-261)
ContentTypeClass(content_type) ==
    IF Contains(content_type, "text/html") THEN "HTML_PAGE"
    ELSE IF \E prefix \in {"video/", "application/vnd.apple.mpegurl", "application/x-mpegurl"} :
                startswith(content_type, prefix)
         THEN "DIRECT_STREAM"
         ELSE "HTML_PAGE"

\* Every failure of the probe reported as a plain FeedDiscoveryError
DetectFailure_OneKind(url, exc) ==
    DetectRaise("FeedDiscoveryError", "HTTP error while detecting URL type: " \o url,
                "Unable to access the URL: " \o exc)

\* The except clauses of detect_url_type, in their order   (lines 263-286)
DetectFailure(url, exc) ==
    IF IsInstance(exc, "TimeoutException")
    THEN DetectRaise("URLValidationError", "Timeout while detecting URL type: " \o url,
           "The URL took too long to respond. Please check your connection and try again.")
    ELSE IF IsInstance(exc, "NetworkError")
    THEN DetectRaise("URLValidationError", "Network error while detecting URL type: " \o url,
           "Unable to connect to the URL. Please check your internet connection and try again.")
    ELSE IF IsInstance(exc, "HTTPError")
    THEN DetectRaise("FeedDiscoveryError", "HTTP error while detecting URL type: " \o url,
           "Unable to access the URL: " \o exc)
    ELSE DetectRaise("FeedDiscoveryError", "Unexpected error detecting URL type: " \o url,
           "An unexpected error occurred. Please try again.")

\* detect_url_type(url) when client.head(url) does what probe says.  The
\* FeedDiscoveryError of lines 238-241 is raised inside the try block: it is
\* no httpx error, so "except Exception" (line 281) catches it and raises
\* the FeedDiscoveryError of lines 283-286 in its place.
detect_url_type(url, probe) ==
    IF FastPath(url) THEN DetectReturn("DIRECT_STREAM", 0)
    ELSE IF probe.exc # "none" THEN DetectFailure(url, probe.exc)
    ELSE IF ExceedsRedirectLimit(probe.redirects) THEN DetectFailure(url, "FeedDiscoveryError")
    ELSE LET content_type == IF probe.content_type = Absent THEN ""
                             ELSE lower(probe.content_type[1])
         IN  DetectReturn(ContentTypeClass(content_type), 1)


(***************************************************************************)
(* validate_url_accessibility (feed_discovery.py 429-524)                  *)
(***************************************************************************)

\* error_message=None, and error_message=text
NoMessage == <<>>
Message(text) == <<text>>

\* return URLValidationResult(...)
ValidationResult(is_accessible, status_code, error_message, content_type) ==
    [returned |-> TRUE, is_accessible |-> is_accessible, status_code |-> status_code,
     error_message |-> error_message, content_type |-> content_type,
     raised |-> "none", message |-> "", user_message |-> "", requests |-> 1]

\* raise URLValidationError(message, user_message)
ValidationRaise(message, user_message) ==
    [returned |-> FALSE, is_accessible |-> FALSE, status_code |-> 0,
     error_message |-> NoMessage, content_type |-> Absent,
     raised |-> "URLValidationError", message |-> message,
     user_message |-> IF user_message = "" THEN message ELSE user_message,
     requests |-> 1]

\* Accessible up to 399
IsAccessible_Below400(status_code) == 200 <= status_code /\ status_code < 400

\* is_accessible = 200 <= response.status_code < 300   (line 466)
IsAccessible(status_code) == 200 <= status_code /\ status_code < 300

\* A failure of the probe answered with a result that is not accessible
ValidateFailure_Returned(url, probe) ==
    ValidationResult(FALSE, 0, Message(probe.exc), Absent)

\* The except clauses of validate_url_accessibility, in their order
\* (lines 481-524); timeout is the default, 15.0
ValidateFailure(url, probe) ==
    IF IsInstance(probe.exc, "TimeoutException")
    THEN ValidationRaise("Timeout while validating URL: " \o url,
           "The URL took too long to respond (timeout: 15.0s). "
              \o "Please check your connection and try again.")
    ELSE IF IsInstance(probe.exc, "ConnectError")
    THEN ValidationRaise("Connection error while validating URL: " \o url,
           "Unable to connect to the URL. "
              \o "Please check your internet connection and verify the URL is correct.")
    ELSE IF IsInstance(probe.exc, "NetworkError")
    THEN ValidationRaise("Network error while validating URL: " \o url,
           "A network error occurred. Please check your internet connection and try again.")
    ELSE IF IsInstance(probe.exc, "HTTPStatusError")
    THEN ValidationResult(FALSE, probe.status_code,
           Message("HTTP " \o ToString(probe.status_code) \o ": " \o probe.exc),
           probe.content_type)
    ELSE IF IsInstance(probe.exc, "HTTPError")
    THEN ValidationRaise("HTTP error while validating URL: " \o url,
           "Unable to access the URL: " \o probe.exc)
    ELSE ValidationRaise("Unexpected error while validating URL: " \o url,
           "An unexpected error occurred. Please try again.")

\* validate_url_accessibility(url) when client.head(url) does what probe says
validate_url_accessibility(url, probe) ==
    IF probe.exc # "none" THEN ValidateFailure(url, probe)
    ELSE IF ExceedsRedirectLimit(probe.redirects)
    THEN ValidationResult(FALSE, probe.status_code,
           Message("URL exceeded maximum redirect limit (5): "
                     \o ToString(probe.redirects) \o " redirects"),
           probe.content_type)
    ELSE ValidationResult(IsAccessible(probe.status_code), probe.status_code,
           IF IsAccessible(probe.status_code) THEN NoMessage
           ELSE Message("HTTP " \o ToString(probe.status_code)),
           probe.content_type)

(***************************************************************************)
(* detect_url_type and validate_url_accessibility applied to a URL and a   *)
(* probe outcome                                                           *)
(***************************************************************************)

ProbeUrls ==
    { "https://h/S.M3U8", "https://h/v.Mp4", "https://h/v.webm", "https://h/v.mkv",
      "https://h/v.FLV", "rtsp://h/s", "RTMP://h/s",
      "https://h/page", "https://h/s.m3u8?t=1" }

ContentTypes ==
    { Absent, Header(""), Header("text/html; charset=utf-8"), Header("TEXT/HTML"),
      Header("video/mp4"), Header("Video/MP2T"),
      Header("application/vnd.apple.mpegurl"), Header("application/x-mpegURL"),
      Header("application/json"), Header("video/mp4; note=text/html") }

StatusCodes == {200, 299, 300, 304, 404, 500}

\* Redirect counts of a response: none, and those around the limit
RedirectCounts == {0} \cup (4..MaxRedirects)

ProbeExceptions ==
    { "ConnectTimeout", "ReadTimeout", "ConnectError", "ReadError",
      "RemoteProtocolError", "UnsupportedProtocol", "TooManyRedirects", "InvalidURL" }

ProbeOutcomes ==
    { Response(n, code, ct) : n \in RedirectCounts, code \in StatusCodes, ct \in ContentTypes }
    \cup { Failure(exc) : exc \in ProbeExceptions }

InitProbe ==
    /\ dUrl \in ProbeUrls
    /\ dProbe \in ProbeOutcomes
    /\ dType = <<>> /\ dValid = <<>>
    /\ InitExtractOff /\ InitScreenOff /\ InitMediaOff
    /\ rName = <<>> /\ rExisting = {} /\ rResult = <<>>
    /\ config = File("missing") /\ distinct0 = TRUE /\ dirExists = FALSE
    /\ torn = FALSE /\ stale = {} /\ faults = 0 /\ lastRename = 0
    /\ InitProcs

ProbeUnchanged ==
    /\ UNCHANGED <<dUrl, dProbe, rName, rExisting, rResult, proc>>
    /\ FsUnchanged /\ ExtractUnchanged /\ ScreenUnchanged /\ MediaUnchanged

\* url_type = detect_url_type(url)
Detect ==
    /\ dType = <<>>
    /\ dType' = <<detect_url_type(dUrl, dProbe)>>
    /\ UNCHANGED dValid /\ ProbeUnchanged

\* validation_result = validate_url_accessibility(url)
Validate ==
    /\ dValid = <<>>
    /\ dValid' = <<validate_url_accessibility(dUrl, dProbe)>>
    /\ UNCHANGED dType /\ ProbeUnchanged

NextProbe == Detect \/ Validate

SpecProbe == InitProbe /\ [][NextProbe]_vars

Detected == dType # <<>>
Validated == dValid # <<>>
Responded == dProbe.exc = "none"


\* The URL has no direct-stream suffix and no rtsp/rtmp scheme: it is probed
Probed == Detected /\ dType[1].requests = 1

StreamSuffixes == {".m3u8", ".mp4", ".webm", ".mkv", ".flv"}

\* C13: for a URL that ends, in any letter case, in .m3u8, .mp4, .webm, .mkv
\* or .flv, or that begins with rtsp:// or rtmp://, detect_url_type returns
\* DIRECT_STREAM and has sent no request, whatever a probe would have done.
C13_FastPathNeedsNoRequest ==
    (Detected /\ (\/ \E ext \in StreamSuffixes : endswith(lower(dUrl), ext)
                  \/ \E scheme \in {"rtsp://", "rtmp://"} : startswith(lower(dUrl), scheme)))
    => /\ dType[1].returned = "DIRECT_STREAM" /\ dType[1].raised = "none"
       /\ dType[1].requests = 0

C13_Witness ==
    /\ Detected /\ dUrl = "https://h/S.M3U8" /\ dProbe = Failure("ConnectError")
    /\ dType[1].returned = "DIRECT_STREAM" /\ dType[1].requests = 0

\* The header value the probe answered with, lower-cased ("" when absent)
ProbedContentType == IF dProbe.content_type = Absent THEN "" ELSE lower(dProbe.content_type[1])

HlsTypes == {"application/vnd.apple.mpegurl", "application/x-mpegurl"}

IsStreamType(content_type) ==
    startswith(content_type, "video/") \/ \E t \in HlsTypes : startswith(content_type, t)

\* C14 as stated: without a fast-path match and with at most 5 redirects,
\* detect_url_type returns HTML_PAGE for a Content-Type text/html*,
\* DIRECT_STREAM for video/* and the two HLS types, HTML_PAGE for any other
\* value and for an absent header, and does not fail.
C14_TypeByContentTypePrefix ==
    (Probed /\ Responded /\ dProbe.redirects <= 5)
    => /\ dType[1].raised = "none"
       /\ dType[1].returned =
            IF startswith(ProbedContentType, "text/html") THEN "HTML_PAGE"
            ELSE IF IsStreamType(ProbedContentType) THEN "DIRECT_STREAM"
            ELSE "HTML_PAGE"

\* C14 amended: without a fast-path match and with at most 5 redirects,
\* detect_url_type does not fail and returns DIRECT_STREAM exactly when the
\* lower-cased Content-Type starts with video/ or with one of the two HLS
\* types and does not contain text/html anywhere; it returns HTML_PAGE for
\* every other value, a value containing text/html and an absent header
\* included.
C14_TypeByContentType ==
    (Probed /\ Responded /\ dProbe.redirects <= 5)
    => /\ dType[1].raised = "none"
       /\ dType[1].returned \in {"HTML_PAGE", "DIRECT_STREAM"}
       /\ dType[1].returned = "DIRECT_STREAM"
            <=> (IsStreamType(ProbedContentType) /\ ~Contains(ProbedContentType, "text/html"))

C14_Witness ==
    /\ Probed /\ dUrl = "https://h/page"
    /\ dProbe = Response(5, 200, Header("Video/MP2T"))
    /\ dType[1].returned = "DIRECT_STREAM"

\* C15: a response reporting exactly 5 redirects is taken as any other by
\* detect_url_type and validate_url_accessibility; one reporting 6 or more
\* makes detect_url_type raise a FeedDiscoveryError and makes
\* validate_url_accessibility return is_accessible=False with a message
\* holding the redirect count, also for a 2xx status.
C15_RedirectBoundary ==
    /\ (Probed /\ Responded /\ dProbe.redirects = 5) => dType[1].raised = "none"
    /\ (Probed /\ Responded /\ dProbe.redirects >= 6)
       => (dType[1].raised = "FeedDiscoveryError" /\ dType[1].returned = "none")
    /\ (Validated /\ Responded /\ dProbe.redirects = 5)
       => /\ dValid[1].returned /\ dValid[1].raised = "none"
          /\ dValid[1].is_accessible
               <=> (200 <= dProbe.status_code /\ dProbe.status_code < 300)
    /\ (Validated /\ Responded /\ dProbe.redirects >= 6)
       => /\ dValid[1].returned /\ dValid[1].raised = "none"
          /\ ~dValid[1].is_accessible
          /\ dValid[1].error_message # NoMessage
          /\ Contains(dValid[1].error_message[1], ToString(dProbe.redirects) \o " redirects")

C15_Witness ==
    /\ Probed /\ Validated /\ dProbe.exc = "none"
    /\ dProbe.redirects = 6 /\ dProbe.status_code = 200
    /\ dType[1].raised = "FeedDiscoveryError" /\ ~dValid[1].is_accessible

\* C30: when detect_url_type sees more than 5 redirects, the
\* FeedDiscoveryError that reaches the caller is the one raised at the
\* check: its message names the maximum redirect limit (5) and its
\* user_message is "URL redirects too many times. Please check the URL."
C30_RedirectErrorReachesCaller ==
    (Probed /\ Responded /\ ~FastPath(dUrl) /\ dProbe.redirects > 5) =>
        /\ dType[1].raised = "FeedDiscoveryError"
        /\ Contains(dType[1].message, "maximum redirect limit (5)")
        /\ dType[1].user_message = "URL redirects too many times. Please check the URL."

\* Timeouts and failures of the connection or the network
InfrastructureFailures == {"ConnectTimeout", "ReadTimeout", "ConnectError", "ReadError"}

\* C16: when the probe of detect_url_type times out or fails at the
\* connection or network layer, URLValidationError is raised; for any other
\* error of the probe, a FeedDiscoveryError that is no URLValidationError;
\* either carries a technical and a user-facing message, and one request
\* was sent.
C16_DetectErrorKinds ==
    (Probed /\ ~Responded)
    => /\ dType[1].returned = "none"
       /\ dType[1].raised = IF dProbe.exc \in InfrastructureFailures
                            THEN "URLValidationError" ELSE "FeedDiscoveryError"
       /\ dType[1].message # "" /\ dType[1].user_message # ""
       /\ dType[1].requests = 1

C16_Witness ==
    /\ Probed /\ dProbe = Failure("ReadTimeout") /\ dUrl = "https://h/page"
    /\ dType[1].raised = "URLValidationError"

\* C17: for a response with at most 5 redirects, validate_url_accessibility
\* returns is_accessible=True exactly for 200 <= status_code < 300, with the
\* response's status_code, and error_message None when accessible and
\* "HTTP {status_code}" otherwise.
C17_AccessibleIff2xx ==
    (Validated /\ Responded /\ dProbe.redirects <= 5)
    => /\ dValid[1].returned
       /\ dValid[1].is_accessible <=> (200 <= dProbe.status_code /\ dProbe.status_code < 300)
       /\ dValid[1].status_code = dProbe.status_code
       /\ dValid[1].error_message =
            IF 200 <= dProbe.status_code /\ dProbe.status_code < 300 THEN NoMessage
            ELSE Message("HTTP " \o ToString(dProbe.status_code))

C17_Witness ==
    /\ Validated /\ dProbe.exc = "none" /\ dProbe.redirects = 0 /\ dProbe.status_code = 404
    /\ ~dValid[1].is_accessible /\ dValid[1].status_code = 404
    /\ dValid[1].error_message = Message("HTTP 404")

\* C18: validate_url_accessibility returns, and does not raise, for every
\* response, with is_accessible=False for a status of 300 or more; when the
\* probe times out or fails at the connection or network layer it raises
\* URLValidationError and returns no result.
C18_RaisesOnlyForInfrastructure ==
    /\ (Validated /\ Responded)
       => /\ dValid[1].returned /\ dValid[1].raised = "none"
          /\ dProbe.status_code >= 300 => ~dValid[1].is_accessible
    /\ (Validated /\ dProbe.exc \in InfrastructureFailures)
       => (~dValid[1].returned /\ dValid[1].raised = "URLValidationError")

C18_Witness ==
    /\ Validated /\ dProbe = Failure("ConnectError")
    /\ ~dValid[1].returned /\ dValid[1].raised = "URLValidationError"


(***************************************************************************)
(* extract_streams_from_html (feed_discovery.py 289-426)                   *)
(*                                                                         *)
(* html_content is modelled by what BeautifulSoup(html_content, "lxml")    *)
(* makes of it: the elements and text nodes of the page in document order, *)
(* all of them below the <html> element the lxml builder always creates.   *)
(***************************************************************************)

\* An attribute that is present (Absent: tag.get(name) is None)
Attr(value) == <<value>>

Node(name, src, srcset, sources, string) ==
    [name |-> name, src |-> src, srcset |-> srcset, sources |-> sources,
     string |-> string]

SourceTag(src, srcset) == Node("source", src, srcset, <<>>, "")
VideoTag(src, sources) == Node("video", src, Absent, sources, "")
TextNode(string)       == Node("#text", Absent, Absent, <<>>, string)
ScriptTag(src, string) == Node("script", src, Absent, <<>>, string)
IframeTag(src)         == Node("iframe", src, Absent, <<>>, "")

\* html_content that parses to the nodes of body, and html_content on which
\* BeautifulSoup raises
Html(body) == [parses |-> TRUE, body |-> body]
Unparseable == [parses |-> FALSE, body |-> <<>>]

\* The children of the BeautifulSoup object itself: the <html> element
SoupChildren(soup) == <<Node("html", Absent, Absent, soup.body, "")>>

\* soup.find_all(name)
find_all(soup, name) == SelectSeq(soup.body, LAMBDA n : n.name = name)

\* soup.find_all(name, recursive=False): direct children only
find_all_direct(soup, name) == SelectSeq(SoupChildren(soup), LAMBDA n : n.name = name)

\* "src_attr and isinstance(src_attr, str)"
Truthy(attr) == attr # Absent /\ attr[1] # ""

\* urllib.parse.urljoin(base, url) for an http(s) base and a reference that
\* is absolute, rooted ("/path") or relative to the base's directory, with
\* no dot segments
RECURSIVE IndexFrom(_, _, _)
IndexFrom(s, c, i) ==
    IF i > Len(s) THEN 0 ELSE IF CharAt(s, i) = c THEN i ELSE IndexFrom(s, c, i + 1)

RECURSIVE LastIndex(_, _, _)
LastIndex(s, c, i) ==
    IF i < 1 THEN 0 ELSE IF CharAt(s, i) = c THEN i ELSE LastIndex(s, c, i - 1)

HasScheme(url) == startswith(lower(url), "http://") \/ startswith(lower(url), "https://")

\* scheme://netloc of an absolute URL
Origin(url) ==
    LET a == IndexFrom(url, "/", 1)
        e == IndexFrom(url, "/", a + 2)
    IN  IF e = 0 THEN url ELSE SubSeq(url, 1, e - 1)

\* an absolute URL up to and including the last "/" of its path
Directory(url) ==
    LET a == IndexFrom(url, "/", 1)
        e == LastIndex(url, "/", Len(url))
    IN  IF e <= a + 1 THEN url \o "/" ELSE SubSeq(url, 1, e)

urljoin(base, url) ==
    IF url = "" THEN base
    ELSE IF HasScheme(url) THEN url
    ELSE IF startswith(url, "/") THEN Origin(base) \o url
    ELSE Directory(base) \o url

\* str.split(sep) for a one-character sep: empty pieces are kept
RECURSIVE split(_, _)
split(s, sep) ==
    LET i == IndexFrom(s, sep, 1)
    IN  IF i = 0 THEN <<s>>
        ELSE <<SubSeq(s, 1, i - 1)>> \o split(SubSeq(s, i + 1, Len(s)), sep)

\* str.split(): pieces between runs of whitespace, empty pieces dropped
RECURSIVE Words(_)
Words(s) ==
    IF Len(s) = 0 THEN <<>>
    ELSE IF IsSpace(CharAt(s, 1)) THEN Words(SubSeq(s, 2, Len(s)))
    ELSE LET i == IndexFrom(s, " ", 1)
         IN  IF i = 0 THEN <<s>>
             ELSE <<SubSeq(s, 1, i - 1)>> \o Words(SubSeq(s, i + 1, Len(s)))

StreamCandidate(url, source_type) == [url |-> url, source_type |-> source_type]

\* "if url not in seen_urls: streams.append(...); seen_urls.add(url)"
AddCandidate_NoDedup(acc, url, source_type) ==
    [streams   |-> Append(acc.streams, StreamCandidate(url, source_type)),
     seen_urls |-> acc.seen_urls \cup {url}]

AddCandidate(acc, url, source_type) ==
    IF url \in acc.seen_urls THEN acc
    ELSE [streams   |-> Append(acc.streams, StreamCandidate(url, source_type)),
          seen_urls |-> acc.seen_urls \cup {url}]

\* The finds of a loop, handed to AddCandidate in the loop's order
RECURSIVE AddAll(_, _)
AddAll(acc, finds) ==
    IF finds = <<>> THEN acc
    ELSE AddAll(AddCandidate(acc, finds[1].url, finds[1].source_type), Tail(finds))

RECURSIVE Flatten(_)
Flatten(seqs) == IF seqs = <<>> THEN <<>> ELSE Head(seqs) \o Flatten(Tail(seqs))

\* The list a comprehension builds
List(items) == items \o <<>>

\* srcset_attr.split(","): its entries
SrcsetEntries(source_tag) ==
    IF Truthy(source_tag.srcset) THEN split(source_tag.srcset[1], ",") ELSE <<>>

\* src_entry.strip().split()[0] raises IndexError on an entry with no token
BlankEntry(src_entry) == Words(src_entry) = <<>>

\* One <source>: its src, then the first token of each srcset entry
SourceFinds(source_tag, base_url) ==
    (IF Truthy(source_tag.src)
     THEN <<StreamCandidate(urljoin(base_url, source_tag.src[1]), "source_tag")>>
     ELSE <<>>)
    \o LET entries == SelectSeq(SrcsetEntries(source_tag), LAMBDA e : ~BlankEntry(e))
       IN  List([i \in 1..Len(entries) |->
                   StreamCandidate(urljoin(base_url, Words(entries[i])[1]), "source_tag")])

VideoSrcFinds(video_tag, base_url) ==
    IF Truthy(video_tag.src)
    THEN <<StreamCandidate(urljoin(base_url, video_tag.src[1]), "video_tag")>>
    ELSE <<>>

NestedFinds(video_tag, base_url) ==
    Flatten(List([t \in 1..Len(video_tag.sources) |->
                    SourceFinds(video_tag.sources[t], base_url)]))

\* One <video>: its src attribute, then its <source> children
VideoFinds_SourcesFirst(video_tag, base_url) ==
    NestedFinds(video_tag, base_url) \o VideoSrcFinds(video_tag, base_url)

VideoFinds(video_tag, base_url) ==
    VideoSrcFinds(video_tag, base_url) \o NestedFinds(video_tag, base_url)

\* (extension, source_type) of stream_patterns, in the list's order
stream_patterns ==
    << <<".m3u8", "m3u8_link">>, <<".mp4", "mp4_link">>,
       <<".webm", "webm_link">>, <<".m3u", "m3u_link">> >>

non_stream_exts == {".jpg", ".jpeg", ".png", ".gif", ".css", ".js", ".json"}

\* The class [^\s"'<>]
IsUrlChar(c) == c \notin {" ", "\n", "\t", "\"", "'", "<", ">"}

\* The last index of the run of [^\s"'<>] characters that starts at j
RECURSIVE RunEnd(_, _)
RunEnd(text, j) ==
    IF j > Len(text) \/ ~IsUrlChar(CharAt(text, j)) THEN j - 1 ELSE RunEnd(text, j + 1)

\* Length of "https?://" matched at i of the lower-cased text, or 0
SchemeAt(low, i) ==
    IF i + 7 <= Len(low) /\ SubSeq(low, i, i + 7) = "https://" THEN 8
    ELSE IF i + 6 <= Len(low) /\ SubSeq(low, i, i + 6) = "http://" THEN 7
    ELSE 0

\* r"https?://[^\s\"'<>]+\.ext[^\s\"'<>]*" with re.IGNORECASE matched at i:
\* the index its match ends at (both classes are greedy), or 0
MatchEnd(ext, low, i) ==
    LET p == SchemeAt(low, i)
        e == RunEnd(low, i + p)
    IN  IF /\ p > 0
           /\ \E k \in (i + p + 1)..(e - Len(ext) + 1) : SubSeq(low, k, k + Len(ext) - 1) = ext
        THEN e ELSE 0

\* re.finditer(pattern, text, re.IGNORECASE): match.group(0) of each match
RECURSIVE finditer(_, _, _, _)
finditer(ext, text, low, i) ==
    IF i > Len(text) THEN <<>>
    ELSE LET e == MatchEnd(ext, low, i)
         IN  IF e = 0 THEN finditer(ext, text, low, i + 1)
             ELSE <<SubSeq(text, i, e)>> \o finditer(ext, text, low, e + 1)

\* A filter that looks at the end of the URL only
IsNonStream_SuffixOnly(url) == \E ext \in non_stream_exts : endswith(lower(url), ext)

\* "any(ext in url.lower() for ext in non_stream_exts)"
IsNonStream(url) == \E ext \in non_stream_exts : Contains(lower(url), ext)

\* The two nested loops over stream_patterns and matches in one text
PatternFinds(text, prefix) ==
    LET low == lower(text)
        OfPattern(pat) ==
            LET urls == SelectSeq(finditer(pat[1], text, low, 1),
                                  LAMBDA url : ~IsNonStream(url))
            IN  List([m \in 1..Len(urls) |-> StreamCandidate(urls[m], prefix \o pat[2])])
    IN  Flatten(List([k \in 1..Len(stream_patterns) |-> OfPattern(stream_patterns[k])]))

\* soup.get_text(): the text nodes joined with no separator; the strings of
\* <script> elements are not part of it
RECURSIVE Join(_)
Join(strings) == IF strings = <<>> THEN "" ELSE Head(strings) \o Join(Tail(strings))

get_text(soup) ==
    LET texts == find_all(soup, "#text")
    IN  Join(List([i \in 1..Len(texts) |-> texts[i].string]))

\* str(script_tag) of a <script> with no content
Serialized(script_tag) ==
    IF script_tag.src = Absent THEN "<script></script>"
    ELSE "<script src=\"" \o script_tag.src[1] \o "\"></script>"

\* "script_tag.string if script_tag.string else ''", then str(script_tag)
script_content(script_tag) ==
    IF script_tag.string # "" THEN script_tag.string ELSE Serialized(script_tag)

ExtractReturn(streams) == [raised |-> "none", streams |-> streams]
ExtractRaise(cls) == [raised |-> cls, streams |-> <<>>]

\* The candidates every loop hands to AddCandidate, in the code's order.
\* The <iframe> loop only logs.
\* One sequence for each loop: <video> tags, standalone <source> tags, page
\* text, <script> tags.  The <iframe> loop only logs.
Passes(soup, base_url) ==
    LET videos  == find_all(soup, "video")
        sources == find_all_direct(soup, "source")
        scripts == find_all(soup, "script")
    IN  << Flatten(List([v \in 1..Len(videos) |-> VideoFinds(videos[v], base_url)])),
           Flatten(List([t \in 1..Len(sources) |->
                           SourceFinds(SourceTag(sources[t].src, Absent), base_url)])),
           PatternFinds(get_text(soup), ""),
           Flatten(List([k \in 1..Len(scripts) |->
                           PatternFinds(script_content(scripts[k]), "script_")])) >>

Finds(soup, base_url) == Flatten(Passes(soup, base_url))

\* Some <source> in a <video> has a srcset entry with no token
HasBlankSrcset(soup) ==
    \E v \in 1..Len(find_all(soup, "video")) :
        LET video_tag == find_all(soup, "video")[v]
        IN  \E t \in 1..Len(video_tag.sources) :
                LET entries == SrcsetEntries(video_tag.sources[t])
                IN  \E k \in 1..Len(entries) : BlankEntry(entries[k])

extract_streams_from_html(html_content, base_url) ==
    IF ~html_content.parses THEN ExtractRaise("HTMLParseError")
    ELSE IF HasBlankSrcset(html_content)
    THEN ExtractRaise("IndexError")
    ELSE ExtractReturn(
             AddAll([streams |-> <<>>, seen_urls |-> {}],
                    Finds(html_content, base_url)).streams)

(***************************************************************************)
(* SpecExtract: extract_streams_from_html on pages of a few nodes          *)
(***************************************************************************)

\* Most nodes of a page
MaxNodes == 2

PageNodes ==
    { VideoTag(Attr("a.mp4"), <<>>),
      VideoTag(Attr("/d/b.mp4"), <<SourceTag(Attr("a.mp4"), Absent)>>),
      VideoTag(Attr("c.webm"), <<SourceTag(Attr("https://h/d/b.mp4"),
                                           Attr("c.webm 1x, /d/a.mp4 2x"))>>),
      VideoTag(Attr(""), <<SourceTag(Absent, Attr("c.webm 1x,"))>>),
      SourceTag(Attr("e.mp4"), Absent),
      TextNode("go https://h/d/a.mp4 "),
      TextNode("https://h/s.m3u8 https://h/i.PNG?v=.mp4"),
      ScriptTag(Absent, "u='https://h/s.M3U8'"),
      ScriptTag(Attr("https://h/d/c.webm"), ""),
      IframeTag(Attr("https://youtube.com/e/1")) }

Pages ==
    {Unparseable} \cup
    { Html(body) : body \in UNION { [1..n -> PageNodes] : n \in 0..MaxNodes } }

BaseUrls == {"https://h/d/page"}

InitExtract ==
    /\ xHtml \in Pages
    /\ xBase \in BaseUrls
    /\ xStreams = <<>>
    /\ dUrl = "" /\ dProbe = <<>> /\ dType = <<>> /\ dValid = <<>>
    /\ InitScreenOff /\ InitMediaOff
    /\ rName = <<>> /\ rExisting = {} /\ rResult = <<>>
    /\ config = File("missing") /\ distinct0 = TRUE /\ dirExists = FALSE
    /\ torn = FALSE /\ stale = {} /\ faults = 0 /\ lastRename = 0
    /\ InitProcs

\* candidates = extract_streams_from_html(html_content, url)
Extract ==
    /\ xStreams = <<>>
    /\ xStreams' = <<extract_streams_from_html(xHtml, xBase)>>
    /\ UNCHANGED <<xHtml, xBase, dUrl, dProbe, dType, dValid, rName, rExisting,
                   rResult, proc>>
    /\ FsUnchanged /\ ScreenUnchanged /\ MediaUnchanged

NextExtract == Extract

SpecExtract == InitExtract /\ [][NextExtract]_vars

Extracted == xStreams # <<>> /\ xStreams[1].raised = "none"

streams == xStreams[1].streams

Range(seq) == {seq[i] : i \in 1..Len(seq)}

DistinctSeq(seq) == \A i, j \in 1..Len(seq) : i # j => seq[i] # seq[j]

\* What each pass finds on the page, before deduplication
Found(p) == Range(Passes(xHtml, xBase)[p])

\* C19: the result of extract_streams_from_html has no two candidates with
\* the same resolved URL; every URL a pass finds is reported, and its one
\* candidate carries the source_type the earliest pass that finds the URL
\* gives it; nothing is reported that no pass found.
C19_DedupKeepsEarliestPass ==
    Extracted =>
        LET passes == Passes(xHtml, xBase)
            found == <<Range(passes[1]), Range(passes[2]), Range(passes[3]),
                       Range(passes[4])>>
            urls  == <<{f.url : f \in found[1]}, {f.url : f \in found[2]},
                       {f.url : f \in found[3]}, {f.url : f \in found[4]}>>
            kept  == streams
            first(url) == CHOOSE q \in 1..4 :
                              url \in urls[q] /\ \A r \in 1..(q - 1) : url \notin urls[r]
        IN  /\ DistinctSeq([i \in 1..Len(kept) |-> kept[i].url])
            /\ \A i \in 1..Len(kept) : \E p \in 1..4 : kept[i] \in found[p]
            /\ \A p \in 1..4 : \A f \in found[p] :
                   \E i \in 1..Len(kept) :
                       /\ kept[i].url = f.url
                       /\ kept[i] \in found[first(f.url)]

\* A URL that is a <video src> and also in the page text is reported once,
\* tagged video_tag
C19_Witness ==
    /\ Extracted
    /\ \E f \in Found(1) : \E g \in Found(3) :
           /\ f.source_type = "video_tag" /\ g.source_type = "mp4_link"
           /\ f.url = g.url
           /\ Cardinality({i \in 1..Len(streams) : streams[i].url = f.url}) = 1
           /\ f \in Range(streams)

Videos == find_all(xHtml, "video")

\* The resolved src of the <video> elements that have one, in document order
VideoSrcUrls ==
    LET with_src == SelectSeq(Videos, LAMBDA v : Truthy(v.src))
    IN  List([i \in 1..Len(with_src) |-> urljoin(xBase, with_src[i].src[1])])

\* The URLs of the candidates tagged video_tag, in result order
VideoTagUrls ==
    LET tagged == SelectSeq(streams, LAMBDA c : c.source_type = "video_tag")
    IN  List([i \in 1..Len(tagged) |-> tagged[i].url])

NoEarlierNestedSource ==
    \A k \in 1..Len(Videos) :
        Truthy(Videos[k].src) =>
            \A j \in 1..(k - 1) : \A f \in Range(NestedFinds(Videos[j], xBase)) :
                f.url # urljoin(xBase, Videos[k].src[1])

StandaloneSources == SelectSeq(xHtml.body, LAMBDA n : n.name = "source")

\* C21: for a <source src=U> that is not nested in a <video>, the result
\* holds a candidate whose URL is U resolved against base_url, tagged
\* source_tag unless the <video> pass already produced that URL.
C21_StandaloneSourceReported ==
    Extracted =>
        \A k \in 1..Len(StandaloneSources) :
            Truthy(StandaloneSources[k].src) =>
                \E i \in 1..Len(streams) :
                    /\ streams[i].url = urljoin(xBase, StandaloneSources[k].src[1])
                    /\ \/ streams[i].source_type = "source_tag"
                       \/ \E f \in Found(1) : f.url = streams[i].url

\* The source types of the page-text and <script> passes
RegexTypes ==
    {"m3u8_link", "mp4_link", "webm_link", "m3u_link",
     "script_m3u8_link", "script_mp4_link", "script_webm_link", "script_m3u_link"}

HasAssetExtension(url) ==
    \E ext \in {".jpg", ".jpeg", ".png", ".gif", ".css", ".js", ".json"} :
        Contains(lower(url), ext)

\* C22: no candidate of the page-text or <script> passes has a URL that
\* contains, in any case, .jpg, .jpeg, .png, .gif, .css, .js or .json.
C22_NoAssetExtensions ==
    Extracted =>
        \A i \in 1..Len(streams) :
            streams[i].source_type \in RegexTypes => ~HasAssetExtension(streams[i].url)

\* The page text holds a URL that matches the .mp4 pattern and carries .PNG:
\* it is left out, while the stream URL next to it is reported
C22_Witness ==
    /\ Extracted
    /\ LET text == get_text(xHtml)
       IN  \E url \in Range(finditer(".mp4", text, lower(text), 1)) :
               /\ HasAssetExtension(url)
               /\ \A i \in 1..Len(streams) : streams[i].url # url
    /\ \E i \in 1..Len(streams) : streams[i].source_type = "m3u8_link"

\* C31: for every HTML input and base_url extract_streams_from_html returns
\* a list of candidates, empty or not, or raises HTMLParseError; no other
\* exception leaves it, also for a <source> in a <video> whose srcset has an
\* empty entry (a trailing comma, a value of whitespace only).
C31_OnlyParseErrorEscapes ==
    xStreams # <<>> => xStreams[1].raised \in {"none", "HTMLParseError"}

(***************************************************************************)
(* AddFeedScreen (tui/screens/add_feed.py)                                 *)
(*                                                                         *)
(* A handler runs to its end before the next event is taken.  The calls    *)
(* _save_direct_stream_feed makes on the config store are the steps of the *)
(* "add" call of process 1; the handler ends with SaveFinished.            *)
(***************************************************************************)

\* The process the screen runs in
Ui == 1

\* str.strip() of a text
RECURSIVE strip(_)
strip(s) ==
    IF Len(s) = 0 THEN s
    ELSE IF IsSpace(CharAt(s, 1)) THEN strip(SubSeq(s, 2, Len(s)))
    ELSE IF IsSpace(CharAt(s, Len(s))) THEN strip(SubSeq(s, 1, Len(s) - 1))
    ELSE s

\* s.find(sub) + 1
RECURSIVE Find(_, _, _)
Find(s, sub, i) ==
    IF i + Len(sub) - 1 > Len(s) THEN 0
    ELSE IF SubSeq(s, i, i + Len(sub) - 1) = sub THEN i
    ELSE Find(s, sub, i + 1)

\* The components HttpUrl parses a URL text into (Feed(url=url))
ParseUrl(text) ==
    LET i == Find(text, "://", 1)
    IN  IF i = 0 THEN Url("", "", text)
        ELSE LET rest == SubSeq(text, i + 3, Len(text))
                 j    == IndexFrom(rest, "/", 1)
             IN  Url(lower(SubSeq(text, 1, i - 1)),
                     IF j = 0 THEN rest ELSE SubSeq(rest, 1, j - 1),
                     IF j = 0 THEN "" ELSE SubSeq(rest, j, Len(rest)))

\* __init__ (lines 32-39) and the mounted screen.  error_widget is the text
\* of #error-message; validated, save_url, fetched and playwright_calls
\* record what the handlers did: the URLs validate_url_accessibility found
\* accessible, the URL handed to _save_direct_stream_feed, how the GET of
\* the last submission ended and its calls of fetch_html_with_playwright.
NewScreen ==
    [mounted |-> TRUE, current_state |-> "name_input", feed_name |-> <<>>,
     feed_url |-> "", stream_candidates |-> <<>>, error_message |-> "none",
     error_widget |-> "none", validated |-> {}, save_url |-> "",
     fetched |-> "none", playwright_calls |-> 0]

\* _update_display: the error widget shows error_message in the error state
\* and is cleared in the others
update_display(scr) ==
    [scr EXCEPT !.error_widget =
        IF scr.current_state = "error" THEN scr.error_message ELSE "none"]

\* self.current_state = "error"; self.error_message = ...; _update_display()
ShowError(scr, message) ==
    update_display([scr EXCEPT !.current_state = "error", !.error_message = message])

\* What a handler leaves: the screen, and the URL it called
\* _save_direct_stream_feed with ("": it did not)
Handled(scr, save_url) == [screen |-> scr, save_url |-> save_url]

\* The branches on len(self.stream_candidates) saving the first candidate
\* of several
ByCandidates_FirstOfMany(scr, candidates, none_message) ==
    LET s == [scr EXCEPT !.stream_candidates = candidates]
    IN  IF Len(candidates) = 0 THEN Handled(ShowError(s, none_message), "")
        ELSE Handled(s, candidates[1].url)

\* The branches on len(self.stream_candidates)   (lines 214-234, 251-284)
ByCandidates(scr, candidates, none_message) ==
    LET s == [scr EXCEPT !.stream_candidates = candidates]
    IN  IF Len(candidates) = 0 THEN Handled(ShowError(s, none_message), "")
        ELSE IF Len(candidates) = 1 THEN Handled(s, candidates[1].url)
        ELSE Handled(update_display([s EXCEPT !.current_state = "stream_selection"]), "")

\* What client.get(url) with raise_for_status() does: a page, an HTTP error
\* status with its body, a timeout or another request error.  rendered is
\* what fetch_html_with_playwright(url) would do: <<html>>, or <<>> (it raises).
Fetched(html) == [kind |-> "ok", status_code |-> 200, html |-> html, rendered |-> <<>>]
HttpStatus(status_code, html, rendered) ==
    [kind |-> "status", status_code |-> status_code, html |-> html, rendered |-> rendered]
FetchFailed(kind) == [kind |-> kind, status_code |-> 0, html |-> Unparseable, rendered |-> <<>>]

\* _handle_html_page with the browser fallback tried after every HTTP error
\* status, not after 403 only
handle_html_page_AnyStatus(scr, url, get) ==
    LET s == [scr EXCEPT !.fetched = IF get.kind = "status" THEN ToString(get.status_code)
                                     ELSE get.kind]
    IN  CASE get.kind = "ok" ->
                 LET page == extract_streams_from_html(get.html, url)
                 IN  IF page.raised = "HTMLParseError" THEN Handled(ShowError(s, "parse_error"), "")
                     ELSE IF page.raised # "none" THEN Handled(ShowError(s, "unexpected"), "")
                     ELSE ByCandidates(s, page.streams, "no_streams")
          [] get.kind = "status" ->
                 LET s1   == [s EXCEPT !.playwright_calls = @ + 1]
                     page == IF get.rendered = <<>> THEN ExtractRaise("FeedDiscoveryError")
                             ELSE extract_streams_from_html(get.rendered[1], url)
                     body == extract_streams_from_html(get.html, url)
                 IN  IF page.raised = "none"
                     THEN ByCandidates(s1, page.streams, "no_streams_rendered")
                     ELSE IF body.raised = "none" /\ Len(body.streams) > 0
                     THEN ByCandidates(s1, body.streams, "forbidden")
                     ELSE Handled(ShowError(IF body.raised = "none"
                                            THEN [s1 EXCEPT !.stream_candidates = <<>>]
                                            ELSE s1, "forbidden"), "")
          [] get.kind = "timeout" -> Handled(ShowError(s, "timeout"), "")
          [] OTHER -> Handled(ShowError(s, "network"), "")

\* _handle_html_page(url)   (lines 192-367)
handle_html_page(scr, url, get) ==
    LET s == [scr EXCEPT !.fetched = IF get.kind = "status" THEN ToString(get.status_code)
                                     ELSE get.kind]
    IN  CASE get.kind = "ok" ->
                 LET page == extract_streams_from_html(get.html, url)
                 IN  IF page.raised = "HTMLParseError" THEN Handled(ShowError(s, "parse_error"), "")
                     ELSE IF page.raised # "none" THEN Handled(ShowError(s, "unexpected"), "")
                     ELSE ByCandidates(s, page.streams, "no_streams")
          [] get.kind = "status" /\ get.status_code = 403 ->
                 LET s1   == [s EXCEPT !.playwright_calls = @ + 1]
                     page == IF get.rendered = <<>> THEN ExtractRaise("FeedDiscoveryError")
                             ELSE extract_streams_from_html(get.rendered[1], url)
                     body == extract_streams_from_html(get.html, url)
                 IN  IF page.raised = "none"
                     THEN ByCandidates(s1, page.streams, "no_streams_rendered")
                     ELSE IF body.raised = "none" /\ Len(body.streams) > 0
                     THEN ByCandidates(s1, body.streams, "forbidden")
                     ELSE Handled(ShowError(IF body.raised = "none"
                                            THEN [s1 EXCEPT !.stream_candidates = <<>>]
                                            ELSE s1, "forbidden"), "")
          [] get.kind = "status" /\ get.status_code # 403 ->
                 Handled(ShowError(s, "http_status"), "")
          [] get.kind = "timeout" -> Handled(ShowError(s, "timeout"), "")
          [] OTHER -> Handled(ShowError(s, "network"), "")

\* on_url_submitted(event)   (lines 129-190): head1 and head2 are what the
\* HEAD requests of detect_url_type and validate_url_accessibility do, get
\* what the GET of _handle_html_page does
on_url_submitted(scr, value, head1, head2, get) ==
    LET url == strip(value)
    IN  IF url = "" THEN Handled([scr EXCEPT !.error_widget = "empty_url"], "")
        ELSE LET s        == [scr EXCEPT !.feed_url = url, !.fetched = "none",
                                         !.playwright_calls = 0]
                 url_type == detect_url_type(url, head1)
                 validation_result == validate_url_accessibility(url, head2)
             IN  IF url_type.raised = "URLValidationError"
                 THEN Handled(ShowError(s, "validation_error"), "")
                 ELSE IF url_type.raised # "none"
                 THEN Handled(ShowError(s, "discovery_error"), "")
                 ELSE IF url_type.returned # "DIRECT_STREAM"
                 THEN handle_html_page(s, url, get)
                 ELSE IF ~validation_result.returned
                 THEN Handled(ShowError(s, "validation_error"), "")
                 ELSE IF validation_result.is_accessible
                 THEN Handled([s EXCEPT !.validated = @ \cup {url}], url)
                 ELSE Handled(ShowError(s, "not_accessible"), "")

\* Where a handler ends: at once, or in _save_direct_stream_feed(url)
\* (lines 369-383), which starts with load_feeds()
Finish(h) ==
    /\ screen' = [h.screen EXCEPT !.save_url = IF h.save_url = "" THEN @ ELSE h.save_url]
    /\ proc' = IF h.save_url = "" THEN proc
               ELSE [proc EXCEPT ![Ui] =
                        Begin("add", "L_mkdir",
                              [NoInput EXCEPT !.name = h.screen.feed_name,
                                              !.url = ParseUrl(h.save_url)], <<>>)]

ScreenFrame ==
    /\ UNCHANGED <<rName, rExisting, rResult, dUrl, dProbe, dType, dValid>>
    /\ ExtractUnchanged /\ FsUnchanged /\ MediaUnchanged

\* An event can be taken: the screen is shown and no handler is running
Ready == screen.mounted /\ proc[Ui].pc = "idle"

\* Inputs of the screen
NameValues == {nA, nSpA, <<" ">>}

UrlValues == {"", " https://h/s.m3u8", "https://h/page", "rtsp://h/s"}

HeadOutcomes ==
    { Response(0, 200, Header("text/html")), Response(0, 200, Header("video/mp4")),
      Response(0, 404, Absent), Failure("ConnectTimeout"), Failure("RemoteProtocolError") }

NoStreamPage == Html(<<>>)
OneStreamPage == Html(<<VideoTag(Attr("a.mp4"), <<>>)>>)
TwoStreamPage ==
    Html(<<VideoTag(Attr("a.mp4"), <<>>), TextNode("https://h/s.m3u8 https://h/i.png?v=.mp4")>>)
BlankSrcsetPage == Html(<<VideoTag(Attr(""), <<SourceTag(Absent, Attr("c.webm 1x,"))>>)>>)

GetOutcomes ==
    { Fetched(html) : html \in {NoStreamPage, OneStreamPage, TwoStreamPage,
                                 BlankSrcsetPage, Unparseable} }
    \cup { HttpStatus(403, body, rendered) :
             body \in {NoStreamPage, OneStreamPage, TwoStreamPage},
             rendered \in {<<>>, <<NoStreamPage>>, <<OneStreamPage>>, <<TwoStreamPage>>,
                           <<Unparseable>>} }
    \cup { HttpStatus(500, NoStreamPage, <<>>), HttpStatus(404, OneStreamPage, <<>>),
           FetchFailed("timeout"), FetchFailed("request_error") }

\* on_name_submitted(event)   (lines 112-127)
OnNameSubmitted ==
    /\ Ready /\ screen.current_state = "name_input"
    /\ \E value \in NameValues :
          LET name == Strip(value)
          IN  screen' = IF name = <<>> THEN [screen EXCEPT !.error_widget = "empty_name"]
                        ELSE update_display([screen EXCEPT !.feed_name = name,
                                                           !.current_state = "url_input"])
    /\ UNCHANGED proc /\ ScreenFrame

\* The requests on_url_submitted(value) makes after the HEAD request of
\* detect_url_type did head1: the HEAD of validate_url_accessibility for a
\* direct stream, the GET of _handle_html_page for a page
TypeOf(value, head1) == detect_url_type(strip(value), head1)

ValidationHeads(value, head1) ==
    IF strip(value) # "" /\ TypeOf(value, head1).returned = "DIRECT_STREAM"
    THEN HeadOutcomes ELSE {head1}

PageGets(value, head1) ==
    IF strip(value) # "" /\ TypeOf(value, head1).returned = "HTML_PAGE"
    THEN GetOutcomes ELSE {FetchFailed("timeout")}

\* on_url_submitted(event): #url-input is enabled in the url_input state only
OnUrlSubmitted ==
    /\ Ready /\ screen.current_state = "url_input"
    /\ \E value \in UrlValues, head1 \in HeadOutcomes :
          \E head2 \in ValidationHeads(value, head1), get \in PageGets(value, head1) :
              Finish(on_url_submitted(screen, value, head1, head2, get))
    /\ ScreenFrame

\* on_stream_selected(event)   (lines 400-410): the list holds one item for
\* each candidate
OnStreamSelected ==
    /\ Ready /\ screen.current_state = "stream_selection"
    /\ \E stream_idx \in 0..(Len(screen.stream_candidates) - 1) :
          Finish(Handled(screen, screen.stream_candidates[stream_idx + 1].url))
    /\ ScreenFrame

\* The end of _save_direct_stream_feed   (lines 385-398): pop_screen after
\* save_feeds returned, the error state after any exception
SaveFinished ==
    /\ screen.mounted /\ proc[Ui].op = "add" /\ proc[Ui].pc = "done"
    /\ screen' = IF proc[Ui].raised = "none" THEN [screen EXCEPT !.mounted = FALSE]
                 ELSE ShowError(screen, "save_failed")
    /\ Set(Ui, Idle)
    /\ ScreenFrame

\* action_cancel   (lines 412-415)
ActionCancel ==
    /\ Ready
    /\ screen' = [screen EXCEPT !.mounted = FALSE]
    /\ UNCHANGED proc /\ ScreenFrame

\* The statements of load_feeds and save_feeds under _save_direct_stream_feed
SaveFeedStep(p) ==
    \/ LoadMkdir(p) \/ LoadExists(p) \/ LoadRead(p)
    \/ CreateEmptyOpen(p) \/ CreateEmptyDump(p)
    \/ AddResolve(p)
    \/ SaveValidate(p) \/ SaveMkdir(p) \/ SaveTempFile(p) \/ SaveDump(p) \/ SaveMove(p)

AddFiles == {File("missing"), FeedsFile(<<Entry(nA, uStream, None)>>)}

InitAdd ==
    /\ screen = NewScreen
    /\ config \in AddFiles
    /\ distinct0 = TRUE
    /\ dirExists = (config.kind # "missing")
    /\ torn = FALSE /\ stale = {} /\ lastRename = 0
    /\ faults \in 0..MaxFaults
    /\ InitProcs
    /\ rName = <<>> /\ rExisting = {} /\ rResult = <<>>
    /\ dUrl = "" /\ dProbe = <<>> /\ dType = <<>> /\ dValid = <<>>
    /\ InitExtractOff /\ InitMediaOff

NextAdd ==
    \/ OnNameSubmitted \/ OnUrlSubmitted \/ OnStreamSelected
    \/ SaveFinished \/ ActionCancel
    \/ SaveFeedStep(Ui)

SpecAdd == InitAdd /\ [][NextAdd]_vars

\* C24: fetch_html_with_playwright is called only after the GET of the
\* submitted URL was rejected with HTTP 403, never after a fetched page,
\* another HTTP status, a timeout or a network error, and at most once for
\* one URL submission.
C24_FallbackOnlyAfter403 ==
    /\ screen.playwright_calls <= 1
    /\ screen.playwright_calls > 0 => screen.fetched = "403"
    /\ screen.fetched \in {"ok", "timeout", "request_error", "500", "404", "none"}
          => screen.playwright_calls = 0

C24_Witness ==
    /\ screen.playwright_calls = 1
    /\ screen.fetched = "403"
    /\ screen.feed_url = "https://h/page"

\* The screen is in its error state and waits for an event
InErrorState == Ready /\ screen.current_state = "error"

\* C38: after the screen entered its error state the user can retry without
\* leaving the screen: a new URL can be submitted and is processed again.
C38_RetryFromErrorState == InErrorState => ENABLED OnUrlSubmitted

\* What the screen does instead: in the error state _update_display has
\* disabled both inputs and the list (lines 92-98), and every step from
\* there closes the screen.
ErrorStateOnlyCancels ==
    [][InErrorState => (~screen'.mounted /\ screen'.current_state = "error")]_vars

\* The HTML whose candidates _handle_html_page(url) branches on after the
\* GET did get: the fetched page, the page the browser rendered after a 403,
\* or the body of the 403 response when the browser failed; <<>>: none
DecidingHtml(get) ==
    IF get.kind = "ok" THEN <<get.html>>
    ELSE IF get.kind = "status" /\ get.status_code = 403
    THEN IF get.rendered # <<>> /\ extract_streams_from_html(get.rendered[1], "https://h/page").raised = "none"
         THEN <<get.rendered[1]>>
         ELSE <<get.html>>
    ELSE <<>>

\* No save was started on the screen and the config file is as it was
NothingPersisted ==
    /\ screen.save_url = ""
    /\ proc[Ui].pc = "idle"
    /\ config \in AddFiles /\ ~torn

\* C39: once the HTML of a page is obtained, by the plain fetch or by the
\* browser fallback, the number of extracted candidates alone decides: none
\* gives the error state and nothing persisted, exactly one is saved at
\* once without a list, two or more give stream_selection, where nothing is
\* persisted until the user selects an item of the candidate list.
C39_CandidateCountDecides ==
    /\ (Ready /\ screen.current_state = "url_input") =>
        \A get \in GetOutcomes :
          LET url  == "https://h/page"
              html == DecidingHtml(get)
              page == extract_streams_from_html(html[1], url)
              h    == handle_html_page(screen, url, get)
          IN  (html # <<>> /\ page.raised = "none") =>
                 /\ h.screen.stream_candidates = page.streams
                 /\ Len(page.streams) = 0 =>
                       (h.screen.current_state = "error" /\ h.save_url = "")
                 /\ Len(page.streams) = 1 =>
                       (h.screen.current_state = "url_input" /\ h.save_url = page.streams[1].url)
                 /\ Len(page.streams) >= 2 =>
                       (h.screen.current_state = "stream_selection" /\ h.save_url = "")
    /\ screen.current_state = "stream_selection" =>
          /\ Len(screen.stream_candidates) >= 2
          /\ screen.save_url = "" => NothingPersisted
          /\ screen.save_url # "" =>
                \E i \in 1..Len(screen.stream_candidates) :
                    screen.save_url = screen.stream_candidates[i].url
    /\ (screen.fetched # "none" /\ Len(screen.stream_candidates) = 0) =>
          (screen.current_state = "error" /\ NothingPersisted)
    /\ (screen.fetched # "none" /\ Len(screen.stream_candidates) = 1) =>
          /\ screen.save_url = screen.stream_candidates[1].url
          /\ screen.current_state \in {"url_input", "error"}
    /\ (screen.fetched # "none" /\ Len(screen.stream_candidates) >= 2) =>
          screen.current_state \in {"stream_selection", "error"}
    /\ proc[Ui].pc # "idle" => screen.save_url # ""

C39_Witness ==
    /\ ~screen.mounted
    /\ screen.current_state = "stream_selection"
    /\ screen.fetched = "403" /\ screen.playwright_calls = 1
    /\ Len(screen.stream_candidates) = 2
    /\ screen.save_url = screen.stream_candidates[2].url
    /\ config.kind = "feeds" /\ Len(config.feeds) = 2
    /\ config.feeds[2].url = ParseUrl(screen.save_url)

\* save_feeds is being called, or has returned, with the new feed
Persisting == proc[Ui].op = "add" /\ (proc[Ui].pc \in SavePcs \/ proc[Ui].pc = "done")

\* C12: a bookmark is persisted only after validate_url_accessibility
\* returned is_accessible=True for its URL in the same flow, whether the URL
\* was typed, is the single extracted candidate or was picked from the list.
C12_SavesOnlyValidatedUrls ==
    Persisting /\ proc[Ui].arg # <<>> => screen.save_url \in screen.validated

(***************************************************************************)
(* TimelapseEncoder (timelapse_encoder.py 90-330)                          *)
(***************************************************************************)

\* The most frames a recording of the model buffers
MaxFrames == 2

\* What a call of a method did: the exception it raised ("none": it
\* returned) and <<value returned>> (<<>>: None)
Call(op, raised, returned) == [op |-> op, raised |-> raised, returned |-> returned]

NoCall == Call("none", "none", <<>>)

\* The object after __init__ (lines 93-131).  accepted and earlier record
\* the history: the capture_frame calls that returned since the last
\* start_recording that returned, and whether a recording that ended had
\* buffered frames.
NewEncoder ==
    [is_recording |-> FALSE, feed_name |-> <<>>, source_fps |-> 30, output_fps |-> 150,
     frames |-> <<>>, accepted |-> 0, earlier |-> FALSE, last |-> NoCall]

\* The method ends: the fields as they are, and what the call did
Ends(enc, op, raised, returned) == [enc EXCEPT !.last = Call(op, raised, returned)]

\* min_required   (line 167)
min_required == 100 * 1024 * 1024

\* start_recording without the test of self._is_recording
start_recording_Restarts(enc, feed_name, source_fps, free_space) ==
    IF strip(feed_name) = "" THEN Ends(enc, "start_recording", "ValueError", <<>>)
    ELSE IF free_space < min_required
    THEN Ends(enc, "start_recording", "DiskSpaceError", <<>>)
    ELSE IF source_fps <= 0 THEN Ends(enc, "start_recording", "ValueError", <<>>)
    ELSE Ends([enc EXCEPT !.feed_name = <<strip(feed_name)>>,
                          !.source_fps = source_fps,
                          !.output_fps = source_fps * 5,
                          !.frames = <<>>,
                          !.is_recording = TRUE,
                          !.accepted = 0],
              "start_recording", "none", <<>>)

\* start_recording(feed_name, source_fps)   (lines 135-189); free_space is
\* what shutil.disk_usage reports
start_recording(enc, feed_name, source_fps, free_space) ==
    IF strip(feed_name) = "" THEN Ends(enc, "start_recording", "ValueError", <<>>)
    ELSE IF enc.is_recording
    THEN Ends(enc, "start_recording", "RecordingInProgressError", <<>>)
    ELSE IF free_space < min_required
    THEN Ends(enc, "start_recording", "DiskSpaceError", <<>>)
    ELSE IF source_fps <= 0 THEN Ends(enc, "start_recording", "ValueError", <<>>)
    ELSE Ends([enc EXCEPT !.feed_name = <<strip(feed_name)>>,
                          !.source_fps = source_fps,
                          !.output_fps = source_fps * 5,
                          !.frames = <<>>,
                          !.is_recording = TRUE,
                          !.accepted = 0],
              "start_recording", "none", <<>>)

\* A frame: what the checks of capture_frame look at
Frame(id, is_array, ndim, channels, dtype) ==
    [id |-> id, is_array |-> is_array, ndim |-> ndim, channels |-> channels,
     dtype |-> dtype]

\* The validation of lines 215-222
FrameOk(frame) ==
    /\ frame.is_array
    /\ frame.ndim = 3
    /\ frame.channels = 3
    /\ frame.dtype = "uint8"

\* capture_frame buffering the frame before it validates it
capture_frame_BuffersFirst(enc, frame) ==
    IF ~enc.is_recording THEN Ends(enc, "capture_frame", "NoRecordingError", <<>>)
    ELSE IF ~FrameOk(frame)
    THEN Ends([enc EXCEPT !.frames = Append(@, frame)], "capture_frame", "ValueError", <<>>)
    ELSE Ends([enc EXCEPT !.frames = Append(@, frame), !.accepted = @ + 1],
              "capture_frame", "none", <<>>)

\* capture_frame(frame)   (lines 191-226)
capture_frame(enc, frame) ==
    IF ~enc.is_recording THEN Ends(enc, "capture_frame", "NoRecordingError", <<>>)
    ELSE IF ~FrameOk(frame) THEN Ends(enc, "capture_frame", "ValueError", <<>>)
    ELSE Ends([enc EXCEPT !.frames = Append(@, frame), !.accepted = @ + 1],
              "capture_frame", "none", <<>>)

\* self._is_recording = False; self._frames = []
Idled(enc) ==
    [enc EXCEPT !.is_recording = FALSE, !.frames = <<>>,
                !.earlier = @ \/ Len(enc.frames) > 0]

\* stop_recording leaving the recording as it is when the encoding fails
stop_recording_KeepsOnFailure(enc, encodes) ==
    IF ~enc.is_recording THEN Ends(enc, "stop_recording", "NoRecordingError", <<>>)
    ELSE IF Len(enc.frames) = 0 THEN Ends(Idled(enc), "stop_recording", "ValueError", <<>>)
    ELSE IF ~encodes THEN Ends(enc, "stop_recording", "EncodingError", <<>>)
    ELSE Ends(Idled(enc), "stop_recording", "none", <<"video_path">>)

\* stop_recording()   (lines 228-278); encodes: _encode_video returns
stop_recording(enc, encodes) ==
    IF ~enc.is_recording THEN Ends(enc, "stop_recording", "NoRecordingError", <<>>)
    ELSE IF Len(enc.frames) = 0 THEN Ends(Idled(enc), "stop_recording", "ValueError", <<>>)
    ELSE IF ~encodes THEN Ends(Idled(enc), "stop_recording", "EncodingError", <<>>)
    ELSE Ends(Idled(enc), "stop_recording", "none", <<"video_path">>)

\* is_recording()   (lines 280-289)
is_recording(enc) == Ends(enc, "is_recording", "none", <<enc.is_recording>>)

\* get_frame_count()   (lines 291-305)
get_frame_count(enc) ==
    IF ~enc.is_recording THEN Ends(enc, "get_frame_count", "NoRecordingError", <<>>)
    ELSE Ends(enc, "get_frame_count", "none", <<Len(enc.frames)>>)

\* cancel_recording()   (lines 307-330)
cancel_recording(enc) ==
    IF ~enc.is_recording THEN Ends(enc, "cancel_recording", "NoRecordingError", <<>>)
    ELSE Ends(Idled(enc), "cancel_recording", "none", <<>>)

(***************************************************************************)
(* One TimelapseEncoder and its caller                                     *)
(***************************************************************************)

EncoderNames == {"", " ", "cam", " zoo "}

SourceRates == {0, 30}

FreeSpaces == {min_required - 1, min_required}

Frames ==
    {Frame(1, TRUE, 3, 3, "uint8"), Frame(2, TRUE, 3, 3, "uint8"),
     Frame(3, FALSE, 0, 0, "none"), Frame(4, TRUE, 2, 0, "uint8"),
     Frame(5, TRUE, 3, 4, "uint8"), Frame(6, TRUE, 3, 3, "float32")}

InitTimelapse ==
    /\ encoder = NewEncoder
    /\ browser = <<>> /\ player = <<>>
    /\ InitScreenOff /\ InitExtractOff
    /\ dUrl = "" /\ dProbe = <<>> /\ dType = <<>> /\ dValid = <<>>
    /\ rName = <<>> /\ rExisting = {} /\ rResult = <<>>
    /\ config = File("missing") /\ distinct0 = TRUE /\ dirExists = FALSE
    /\ torn = FALSE /\ stale = {} /\ faults = 0 /\ lastRename = 0
    /\ InitProcs

EncoderFrame ==
    /\ UNCHANGED <<browser, player, proc, rName, rExisting, rResult,
                   dUrl, dProbe, dType, dValid>>
    /\ FsUnchanged /\ ExtractUnchanged /\ ScreenUnchanged

StartRecording ==
    /\ \E feed_name \in EncoderNames, source_fps \in SourceRates, free_space \in FreeSpaces :
          encoder' = start_recording(encoder, feed_name, source_fps, free_space)
    /\ EncoderFrame

CaptureFrame ==
    /\ Len(encoder.frames) < MaxFrames
    /\ \E frame \in Frames : encoder' = capture_frame(encoder, frame)
    /\ EncoderFrame

StopRecording ==
    /\ \E encodes \in BOOLEAN : encoder' = stop_recording(encoder, encodes)
    /\ EncoderFrame

CancelRecording ==
    /\ encoder' = cancel_recording(encoder)
    /\ EncoderFrame

GetFrameCount ==
    /\ encoder' = get_frame_count(encoder)
    /\ EncoderFrame

IsRecording ==
    /\ encoder' = is_recording(encoder)
    /\ EncoderFrame

NextTimelapse ==
    \/ StartRecording \/ CaptureFrame \/ StopRecording
    \/ CancelRecording \/ GetFrameCount \/ IsRecording

SpecTimelapse == InitTimelapse /\ [][NextTimelapse]_vars

\* The recording flag, the feed name and the buffered frames
Recording(enc) == <<enc.is_recording, enc.feed_name, enc.frames>>

\* The call was rejected with err and left the recording as it was
Rejected(enc, after, err) ==
    /\ after.last.raised = err
    /\ Recording(after) = Recording(enc)

\* capture_frame, stop_recording, cancel_recording and get_frame_count on an
\* encoder that is not recording raise NoRecordingError and change nothing
InactiveCallsRejected ==
    ~encoder.is_recording =>
        /\ \A frame \in Frames : Rejected(encoder, capture_frame(encoder, frame), "NoRecordingError")
        /\ \A encodes \in BOOLEAN :
              Rejected(encoder, stop_recording(encoder, encodes), "NoRecordingError")
        /\ Rejected(encoder, cancel_recording(encoder), "NoRecordingError")
        /\ Rejected(encoder, get_frame_count(encoder), "NoRecordingError")

C28_FrameCountIsAcceptedFrames ==
    LET count(enc) == get_frame_count(enc).last.returned
    IN  /\ encoder.is_recording => count(encoder) = <<encoder.accepted>>
        /\ (encoder.last.op = "start_recording" /\ encoder.last.raised = "none")
              => count(encoder) = <<0>>
        /\ encoder.is_recording =>
              \A frame \in Frames :
                  LET after == capture_frame(encoder, frame)
                  IN  /\ after.last.raised \in {"none", "ValueError"}
                      /\ after.last.raised = "none" => count(after) = <<encoder.accepted + 1>>
                      /\ after.last.raised = "ValueError" => count(after) = count(encoder)

C28_Witness ==
    /\ encoder.is_recording
    /\ encoder.earlier
    /\ encoder.accepted = 1
    /\ encoder.last = Call("capture_frame", "ValueError", <<>>)
    /\ get_frame_count(encoder).last.returned = <<1>>

\* The encoder is idle and its frame buffer is empty
IdleAndEmpty(enc) == ~is_recording(enc).last.returned[1] /\ enc.frames = <<>>

\* start_recording with a feed name, a positive frame rate and enough free
\* disk space returns and the encoder records
Restartable(enc) ==
    \A feed_name \in EncoderNames, source_fps \in SourceRates, free_space \in FreeSpaces :
        (strip(feed_name) # "" /\ source_fps > 0 /\ free_space >= min_required) =>
            LET again == start_recording(enc, feed_name, source_fps, free_space)
            IN  /\ again.last.raised = "none"
                /\ again.is_recording
                /\ again.frames = <<>>

\* C35: after stop_recording returns or raises (video saved, ValueError for
\* no frames, EncodingError) and after cancel_recording, the encoder is idle
\* with an empty frame buffer and a following start_recording succeeds; in
\* every reachable state an encoder that is not recording has an empty
\* frame buffer.
C35_EndedRecordingIsIdleAndEmpty ==
    /\ ~encoder.is_recording => encoder.frames = <<>>
    /\ encoder.is_recording => (encoder.feed_name # <<>> /\ encoder.feed_name[1] # "")
    /\ encoder.last.op \in {"stop_recording", "cancel_recording"} =>
          /\ IdleAndEmpty(encoder)
          /\ Restartable(encoder)
    /\ encoder.is_recording =>
          /\ \A encodes \in BOOLEAN :
                LET after == stop_recording(encoder, encodes)
                IN  /\ after.last.raised =
                          (IF Len(encoder.frames) = 0 THEN "ValueError"
                           ELSE IF encodes THEN "none" ELSE "EncodingError")
                    /\ IdleAndEmpty(after)
                    /\ Restartable(after)
          /\ IdleAndEmpty(cancel_recording(encoder))
          /\ Restartable(cancel_recording(encoder))

C35_Witness ==
    /\ encoder.last = Call("stop_recording", "EncodingError", <<>>)
    /\ encoder.earlier
    /\ ~encoder.is_recording
    /\ encoder.frames = <<>>
    /\ encoder.feed_name = <<"cam">>

(***************************************************************************)
(* VideoPlayer (video_player.py 71-517)                                    *)
(***************************************************************************)

\* An exception object: its class, message and error_type
PlayerError(cls, message, error_type) ==
    [cls |-> cls, message |-> message, error_type |-> error_type]

\* What a call of a method did: <<the exception raised>> (<<>>: it
\* returned) and <<value returned>> (<<>>: None)
PlayerCall(op, raised, returned) == [op |-> op, raised |-> raised, returned |-> returned]

\* The object after __init__ (lines 74-99): _player is None ("none") until
\* load() puts a MediaPlayer there ("open").  stopped records that stop()
\* released a MediaPlayer.
NewPlayer(stream_url) ==
    [stream_url |-> strip(stream_url), player |-> "none", is_playing |-> FALSE,
     error |-> <<>>, stopped |-> FALSE, last |-> PlayerCall("none", <<>>, <<>>)]

\* The method returns value
Returns(pl, op, returned) == [pl EXCEPT !.last = PlayerCall(op, <<>>, returned)]

\* The method raises error
Raises(pl, op, error) == [pl EXCEPT !.last = PlayerCall(op, <<error>>, <<>>)]

\* The error type load() derives from the exception's text (lines 139-145)
LoadErrorType(text) ==
    IF Contains(text, "404") \/ Contains(lower(text), "not found") THEN "unavailable"
    ELSE IF Contains(lower(text), "timeout") THEN "timeout"
    ELSE IF Contains(lower(text), "format") \/ Contains(lower(text), "codec")
    THEN "invalid_format"
    ELSE "network"

\* load() giving up the MediaPlayer it had when the new one fails to open
load_DropsPlayerOnFailure(pl, opened) ==
    IF opened = "ImportError"
    THEN LET e == PlayerError("VideoPlayerError", "ffpyplayer not available", "initialization")
         IN  Raises([pl EXCEPT !.error = <<e>>, !.player = "none"], "load", e)
    ELSE IF opened = "open"
    THEN Returns([pl EXCEPT !.error = <<>>, !.player = "open"], "load", <<>>)
    ELSE LET e == PlayerError("StreamLoadError", "Failed to load stream: " \o opened[1],
                              LoadErrorType(opened[1]))
         IN  Raises([pl EXCEPT !.error = <<e>>, !.player = "none"], "load", e)

\* load()   (lines 101-149).  opened is what the import of ffpyplayer and
\* MediaPlayer(self.stream_url) do: "open", "ImportError", or <<text of
\* the exception raised>>.
load(pl, opened) ==
    IF opened = "ImportError"
    THEN LET e == PlayerError("VideoPlayerError", "ffpyplayer not available", "initialization")
         IN  Raises([pl EXCEPT !.error = <<e>>], "load", e)
    ELSE IF opened = "open"
    THEN Returns([pl EXCEPT !.error = <<>>, !.player = "open"], "load", <<>>)
    ELSE LET e == PlayerError("StreamLoadError", "Failed to load stream: " \o opened[1],
                              LoadErrorType(opened[1]))
         IN  Raises([pl EXCEPT !.error = <<e>>], "load", e)

\* play() starting playback without resetting _error
play_KeepsError(pl) ==
    IF pl.player = "none"
    THEN Raises(pl, "play",
                PlayerError("VideoPlayerError", "Stream not loaded. Call load() first.",
                            "playback"))
    ELSE IF pl.is_playing THEN Returns(pl, "play", <<>>)
    ELSE Returns([pl EXCEPT !.is_playing = TRUE], "play", <<>>)

\* play()   (lines 151-187)
play(pl) ==
    IF pl.player = "none"
    THEN Raises(pl, "play",
                PlayerError("VideoPlayerError", "Stream not loaded. Call load() first.",
                            "playback"))
    ELSE IF pl.is_playing THEN Returns(pl, "play", <<>>)
    ELSE Returns([pl EXCEPT !.is_playing = TRUE, !.error = <<>>], "play", <<>>)

\* stop() releasing the MediaPlayer without resetting _is_playing
stop_KeepsPlaying(pl, closes) ==
    IF pl.player = "none" THEN Returns(pl, "stop", <<>>)
    ELSE Returns([pl EXCEPT !.player = "none", !.stopped = TRUE], "stop", <<>>)

\* stop()   (lines 189-218); closes: self._player.close() returns.  Both
\* ways the player is marked stopped and released.
stop(pl, closes) ==
    IF pl.player = "none" THEN Returns(pl, "stop", <<>>)
    ELSE Returns([pl EXCEPT !.is_playing = FALSE, !.player = "none", !.stopped = TRUE],
                 "stop", <<>>)

\* get_frame()   (lines 220-496).  got is what self._player.get_frame() and
\* the conversion of its image do: "frame", "none" (no frame is ready, or
\* the image cannot be converted), or <<text of the exception raised>>.
get_frame(pl, got) ==
    IF pl.player = "none" \/ ~pl.is_playing THEN Returns(pl, "get_frame", <<>>)
    ELSE IF got = "frame" THEN Returns(pl, "get_frame", <<"VideoFrame">>)
    ELSE IF got = "none" THEN Returns(pl, "get_frame", <<>>)
    ELSE IF Contains(lower(got[1]), "connection") \/ Contains(lower(got[1]), "network")
    THEN Returns([pl EXCEPT !.error = <<PlayerError("StreamLoadError",
                                                     "Connection lost during playback",
                                                     "network")>>,
                            !.is_playing = FALSE],
                 "get_frame", <<>>)
    ELSE Returns(pl, "get_frame", <<>>)

\* is_playing()   (lines 498-504)
is_playing(pl) == Returns(pl, "is_playing", <<pl.is_playing>>)

\* get_error()   (lines 506-517)
get_error(pl) == Returns(pl, "get_error", pl.error)

(***************************************************************************)
(* One VideoPlayer and its caller                                          *)
(***************************************************************************)

StreamUrls == {"https://h/s.m3u8", " rtsp://h/s "}

LoadOutcomes ==
    {"open", "ImportError", <<"HTTP 404">>, <<"Timeout">>, <<"bad codec">>, <<"refused">>}

FrameOutcomes == {"frame", "none", <<"Connection reset">>, <<"decode">>}

InitPlayer ==
    /\ \E stream_url \in StreamUrls : player = NewPlayer(stream_url)
    /\ browser = <<>> /\ encoder = <<>>
    /\ InitScreenOff /\ InitExtractOff
    /\ dUrl = "" /\ dProbe = <<>> /\ dType = <<>> /\ dValid = <<>>
    /\ rName = <<>> /\ rExisting = {} /\ rResult = <<>>
    /\ config = File("missing") /\ distinct0 = TRUE /\ dirExists = FALSE
    /\ torn = FALSE /\ stale = {} /\ faults = 0 /\ lastRename = 0
    /\ InitProcs

PlayerFrame ==
    /\ UNCHANGED <<browser, encoder, proc, rName, rExisting, rResult,
                   dUrl, dProbe, dType, dValid>>
    /\ FsUnchanged /\ ExtractUnchanged /\ ScreenUnchanged

Load ==
    /\ \E opened \in LoadOutcomes : player' = load(player, opened)
    /\ PlayerFrame

Play ==
    /\ player' = play(player)
    /\ PlayerFrame

Stop ==
    /\ \E closes \in BOOLEAN : player' = stop(player, closes)
    /\ PlayerFrame

GetFrame ==
    /\ \E got \in FrameOutcomes : player' = get_frame(player, got)
    /\ PlayerFrame

IsPlaying ==
    /\ player' = is_playing(player)
    /\ PlayerFrame

GetError ==
    /\ player' = get_error(player)
    /\ PlayerFrame

NextPlayer == Load \/ Play \/ Stop \/ GetFrame \/ IsPlaying \/ GetError

SpecPlayer == InitPlayer /\ [][NextPlayer]_vars

\* is_playing() returns False
NotPlaying(pl) == is_playing(pl).last.returned = <<FALSE>>

\* C29: on a VideoPlayer whose stream is not loaded, never loaded or
\* stopped, play() raises VideoPlayerError("Stream not loaded...") and
\* leaves is_playing() False, get_frame() returns None, and stop() returns
\* without error and leaves is_playing() False.
C29_UnloadedPlayerCalls ==
    player.player = "none" =>
        /\ LET played == play(player)
           IN  /\ played.last.raised # <<>>
               /\ played.last.raised[1].cls = "VideoPlayerError"
               /\ startswith(played.last.raised[1].message, "Stream not loaded")
               /\ NotPlaying(played)
        /\ \A got \in FrameOutcomes :
              /\ get_frame(player, got).last.raised = <<>>
              /\ get_frame(player, got).last.returned = <<>>
        /\ \A closes \in BOOLEAN :
              /\ stop(player, closes).last.raised = <<>>
              /\ NotPlaying(stop(player, closes))

C29_Witness ==
    /\ player.player = "none"
    /\ player.stopped
    /\ player.last.op = "play"
    /\ player.last.raised # <<>>
    /\ player.last.raised[1].message = "Stream not loaded. Call load() first."
    /\ ~player.is_playing

\* is_playing() returns True
Playing(pl) == is_playing(pl).last.returned = <<TRUE>>

\* C36: in every state reached by load, play, stop and get_frame calls,
\* failed ones included, is_playing() True implies that a stream is loaded;
\* after stop() is_playing() is False and no stream is loaded, also when
\* closing the underlying player raised, and a second stop() is a no-op.
C36_PlayingImpliesLoaded ==
    /\ Playing(player) => player.player = "open"
    /\ player.last.op = "stop" => (NotPlaying(player) /\ player.player = "none")
    /\ \A closes \in BOOLEAN :
          LET after == stop(player, closes)
          IN  /\ after.last.raised = <<>>
              /\ NotPlaying(after)
              /\ after.player = "none"
              /\ \A again \in BOOLEAN : stop(after, again) = after

C36_Witness ==
    /\ player.last = PlayerCall("stop", <<>>, <<>>)
    /\ player.stopped
    /\ player.player = "none"
    /\ ~player.is_playing
    /\ player.error # <<>>
    /\ player.error[1].message = "Connection lost during playback"

\* What get_error() returns
LastError(pl) == get_error(pl).last.returned

\* After a load() that raised, get_error() returns an error of the class,
\* message and error_type raised
LoadErrorKept ==
    /\ (player.last.op = "load" /\ player.last.raised # <<>>) =>
          LastError(player) = player.last.raised
    /\ \A opened \in LoadOutcomes :
          LET after == load(player, opened)
          IN  IF opened = "open"
              THEN after.last.raised = <<>> /\ LastError(after) = <<>>
              ELSE /\ after.last.raised # <<>>
                   /\ LastError(after) = after.last.raised
                   /\ after.last.raised[1].cls =
                         (IF opened = "ImportError" THEN "VideoPlayerError"
                          ELSE "StreamLoadError")

PlaywrightOutcomes == {"ok", "TimeoutError", "net::ERR_FAILED", "Target closed"}

\* The call at its first statement.  driver is the Playwright driver
\* process sync_playwright() starts, engine the browser p.chromium.launch
\* starts; launched and gotos record that launch returned and how many
\* page.goto calls were made; pending is the exception on its way out of
\* the with block; result is what the call returned or raised.
NewFetch(url, available) ==
    [url |-> url, available |-> available, pc |-> "available", driver |-> "off",
     engine |-> "none", launched |-> FALSE, gotos |-> 0, pending |-> "none",
     result |-> <<>>]

\* return html_content   (line 126)
FetchReturn(b) ==
    [b EXCEPT !.pc = "done",
              !.result = <<[returned |-> <<"html">>, raised |-> "none", message |-> "",
                            user_message |-> ""]>>]

\* raise FeedDiscoveryError(message, user_message)
FetchRaise(b, message, user_message) ==
    [b EXCEPT !.pc = "done",
              !.result = <<[returned |-> <<>>, raised |-> "FeedDiscoveryError",
                            message |-> message,
                            user_message |-> IF user_message = "" THEN message
                                             ELSE user_message]>>]

\* The except clauses of lines 128-140 for the exception exc
FetchFailure(b, exc) ==
    IF exc = "TimeoutError"
    THEN FetchRaise(b, "Timeout while fetching page with browser: " \o b.url,
           "The page took too long to load. Please check your connection and try again.")
    ELSE FetchRaise(b, "Error fetching page with browser: " \o exc,
           "Failed to load page: " \o exc \o ". Please try a direct stream URL instead.")

\* An exception that leaves the try block past the with statement's exit
Unwind_PastExit(b, exc) == FetchFailure(b, exc)

\* An exception raised in the body of "with sync_playwright() as p" (line
\* 97): the with statement runs the exit of the context manager before the
\* except clauses see the exception
Unwind(b, exc) == [b EXCEPT !.pc = "exit", !.pending = exc]

\* A statement of the with body that returns goes on at next; one that
\* raises leaves the body
Body(b, outcome, next) ==
    IF outcome = "ok" THEN [b EXCEPT !.pc = next] ELSE Unwind(b, outcome)

BrowserFrame ==
    /\ UNCHANGED <<encoder, player, proc, rName, rExisting, rResult,
                   dUrl, dProbe, dType, dValid>>
    /\ FsUnchanged /\ ExtractUnchanged /\ ScreenUnchanged

\* if not PLAYWRIGHT_AVAILABLE or sync_playwright is None   (lines 86-94)
Available ==
    /\ browser.pc = "available"
    /\ browser' = IF browser.available THEN [browser EXCEPT !.pc = "enter"]
                  ELSE FetchRaise(browser,
                         "Playwright is not installed. Install it with: playwright install",
                         "Browser automation is not available. "
                           \o "Please install Playwright or use a direct stream URL.")
    /\ BrowserFrame

\* sync_playwright().__enter__() starts the driver; when it raises, no
\* context was entered and the except clauses take over   (line 97)
EnterPlaywright ==
    /\ browser.pc = "enter"
    /\ \E outcome \in PlaywrightOutcomes :
          browser' = IF outcome = "ok"
                     THEN [browser EXCEPT !.pc = "launch", !.driver = "running"]
                     ELSE FetchFailure(browser, outcome)
    /\ BrowserFrame

\* browser = p.chromium.launch(headless=True)   (line 99)
Launch ==
    /\ browser.pc = "launch"
    /\ \E outcome \in PlaywrightOutcomes :
          browser' = IF outcome = "ok"
                     THEN [browser EXCEPT !.pc = "context", !.engine = "running",
                                          !.launched = TRUE]
                     ELSE Unwind(browser, outcome)
    /\ BrowserFrame

\* context = browser.new_context(...)   (lines 100-106)
NewContext ==
    /\ browser.pc = "context"
    /\ \E outcome \in PlaywrightOutcomes : browser' = Body(browser, outcome, "page")
    /\ BrowserFrame

\* page = context.new_page()   (line 107)
NewPage ==
    /\ browser.pc = "page"
    /\ \E outcome \in PlaywrightOutcomes : browser' = Body(browser, outcome, "networkidle")
    /\ BrowserFrame

\* page.goto(url, wait_until="networkidle"), and its except clause   (110-112)
GotoNetworkIdle ==
    /\ browser.pc = "networkidle"
    /\ \E outcome \in PlaywrightOutcomes :
          LET b == [browser EXCEPT !.gotos = @ + 1]
          IN  browser' = IF outcome = "TimeoutError" THEN [b EXCEPT !.pc = "domcontentloaded"]
                         ELSE Body(b, outcome, "wait")
    /\ BrowserFrame

\* page.goto(url, wait_until="domcontentloaded")   (line 115)
GotoDomContentLoaded ==
    /\ browser.pc = "domcontentloaded"
    /\ \E outcome \in PlaywrightOutcomes :
          browser' = Body([browser EXCEPT !.gotos = @ + 1], outcome, "wait")
    /\ BrowserFrame

\* page.wait_for_timeout(2000)   (line 118)
WaitForTimeout ==
    /\ browser.pc = "wait"
    /\ \E outcome \in PlaywrightOutcomes : browser' = Body(browser, outcome, "content")
    /\ BrowserFrame

\* html_content = page.content()   (line 121)
Content ==
    /\ browser.pc = "content"
    /\ \E outcome \in PlaywrightOutcomes : browser' = Body(browser, outcome, "close")
    /\ BrowserFrame

\* browser.close()   (line 123); the return of line 126 leaves the with
\* block as well
CloseBrowser ==
    /\ browser.pc = "close"
    /\ \E outcome \in PlaywrightOutcomes :
          browser' = IF outcome = "ok"
                     THEN [browser EXCEPT !.pc = "exit", !.engine = "closed"]
                     ELSE Unwind(browser, outcome)
    /\ BrowserFrame

\* The exit of "with sync_playwright() as p": it stops the driver, and the
\* driver ends the browsers it launched that still run.  Then the function
\* returns, or the except clauses handle the pending exception.
ExitPlaywright ==
    /\ browser.pc = "exit"
    /\ LET b == [browser EXCEPT !.driver = "stopped",
                                !.engine = IF @ = "running" THEN "closed" ELSE @]
       IN  browser' = IF b.pending = "none" THEN FetchReturn(b)
                      ELSE FetchFailure(b, b.pending)
    /\ BrowserFrame

FetchUrls == {"https://h/page", "https://h/d/page", "http://h"}

InitBrowserOnly ==
    /\ encoder = <<>> /\ player = <<>>
    /\ InitScreenOff /\ InitExtractOff
    /\ dUrl = "" /\ dProbe = <<>> /\ dType = <<>> /\ dValid = <<>>
    /\ rName = <<>> /\ rExisting = {} /\ rResult = <<>>
    /\ config = File("missing") /\ distinct0 = TRUE /\ dirExists = FALSE
    /\ torn = FALSE /\ stale = {} /\ faults = 0 /\ lastRename = 0
    /\ InitProcs

InitBrowser ==
    /\ \E url \in FetchUrls, available \in BOOLEAN : browser = NewFetch(url, available)
    /\ InitBrowserOnly

NextBrowser ==
    \/ Available \/ EnterPlaywright \/ Launch \/ NewContext \/ NewPage
    \/ GotoNetworkIdle \/ GotoDomContentLoaded \/ WaitForTimeout \/ Content
    \/ CloseBrowser \/ ExitPlaywright

SpecBrowser == InitBrowser /\ [][NextBrowser]_vars

FetchDone == browser.pc = "done"

\* C25: on every exit path of fetch_html_with_playwright that launched a
\* browser, the normal return, a navigation timeout in both the
\* network-idle and the DOM-ready attempt, or any other exception, the
\* browser is released when the call returns or raises: none is left
\* running.
C25_LaunchedBrowserReleased ==
    (FetchDone /\ browser.launched) =>
        /\ browser.engine = "closed"
        /\ browser.driver = "stopped"

C25_Witness ==
    /\ FetchDone /\ browser.launched
    /\ browser.gotos = 2
    /\ browser.pending = "TimeoutError"
    /\ browser.result[1].raised = "FeedDiscoveryError"
    /\ browser.engine = "closed"

(***************************************************************************)
(* The exceptions of the core calls as their caller sees them              *)
(***************************************************************************)

\* An exception object: the call it came out of, its class, str(e), and
\* its user_message attribute (<<>>: the object has none)
CoreError(call, cls, message, user_message) ==
    [call |-> call, cls |-> cls, message |-> message, user_message |-> user_message]

\* A FeedDiscoveryError or URLValidationError raised by a discovery call:
\* __init__ sets both message and user_message   (feed_discovery.py 173-181)
DiscoveryRaised(call, outcome) ==
    CoreError(call, outcome.raised, outcome.message,
              IF outcome.user_message = "" THEN <<>> ELSE <<outcome.user_message>>)

\* A file-system failure in load_feeds or save_feeds wrapped in an exception
\* with a message for the user
StoreRaised_Wrapped(call, cls, at) ==
    CoreError(call, cls, "failed at " \o at, <<"The configuration could not be accessed.">>)

\* A file-system failure in load_feeds or save_feeds: the except clauses log
\* and re-raise with a bare "raise", so the caller gets the exception of the
\* failed statement itself   (feed_manager.py 48-50, 97-99, 127-129, 153-161)
StoreRaised(call, cls, at) == CoreError(call, cls, "failed at " \o at, <<>>)

\* A call of fetch_html_with_playwright is under way or finished
Fetching == DOMAIN browser # {}

\* What the finished discovery calls of the state raised
DiscoveryErrors ==
    { DiscoveryRaised("detect_url_type", dType[i]) :
        i \in { j \in 1..Len(dType) : dType[j].raised # "none" } }
    \cup { DiscoveryRaised("validate_url_accessibility", dValid[i]) :
             i \in { j \in 1..Len(dValid) : dValid[j].raised # "none" } }
    \cup (IF Fetching
          THEN { DiscoveryRaised("fetch_html_with_playwright", browser.result[i]) :
                   i \in { j \in 1..Len(browser.result) : browser.result[j].raised # "none" } }
          ELSE {})

\* What the finished load_feeds and save_feeds calls of the state raised
\* after a file-system call failed
StoreErrors ==
    { StoreRaised(proc[p].op, proc[p].raised, proc[p].fault) :
        p \in { q \in Procs : proc[q].pc = "done" /\ proc[q].fault # "none" } }

\* The exceptions the finished calls of the state handed to their callers
Surfaced == DiscoveryErrors \cup StoreErrors

(***************************************************************************)
(* One core call: a discovery call on a probe outcome, the browser         *)
(* fallback, or load_feeds / save_feeds on a file system that may fail     *)
(***************************************************************************)

CoreFiles == {File("missing"), File("empty"), FeedsFile(<<Entry(nA, uStream, None)>>)}

InitCoreStore ==
    /\ config \in CoreFiles
    /\ distinct0 = TRUE
    /\ dirExists = (config.kind # "missing")
    /\ torn = FALSE /\ stale = {} /\ lastRename = 0
    /\ faults = MaxFaults
    /\ InitProcs
    /\ InitResolverOff

InitCore == InitProbe \/ InitBrowser \/ InitCoreStore

\* The statements of load_feeds and save_feeds
CoreStoreStep(p) ==
    \/ LoadMkdir(p) \/ LoadExists(p) \/ LoadRead(p)
    \/ CreateEmptyOpen(p) \/ CreateEmptyDump(p)
    \/ SaveValidate(p) \/ SaveMkdir(p) \/ SaveTempFile(p) \/ SaveDump(p) \/ SaveMove(p)

CoreProbe == dUrl # "" /\ NextProbe

CoreBrowser == Fetching /\ NextBrowser

CoreStore ==
    /\ dUrl = "" /\ ~Fetching
    /\ \/ CallLoad(1)
       \/ \E xs \in SaveInputs : CallSave(1, xs)
       \/ CoreStoreStep(1)

NextCore == CoreProbe \/ CoreBrowser \/ CoreStore

SpecCore == InitCore /\ [][NextCore]_vars

\* The exception has a technical message and a message for the user
CarriesBoth(e) ==
    /\ e.message # ""
    /\ e.user_message # <<>>
    /\ e.user_message[1] # ""

=============================================================================
